---- MODULE Spec2Model ----
(***************************************************************************)
(* A model of the KWORB Spotify chart scrapers: the numeric cell parsers,  *)
(* the locator fallback chains, the retry loop of                          *)
(* KworbScraper.extract_streams, the per-date loop of                      *)
(* ChartScraper.scrape_date_range and the table post-processing of         *)
(* ChartScraper.scrape_track_history.                                      *)
(*                                                                         *)
(* Text is modelled as a sequence of one-character strings, so that        *)
(* replace(), strip(), int(), strptime() and string comparison are         *)
(* computed character by character as Python computes them.                *)
(***************************************************************************)
EXTENDS Integers, Sequences, FiniteSets, TLC

VARIABLES
    \* numeric cell parsing (ChartScraper._parse_number, KworbScraper streams cell)
    pn_text, pn_pc, pn_value,
    \* one run of a locator fallback chain
    rs_kind, rs_chain, rs_st,
    \* one call of KworbScraper.extract_streams
    ks_retry_count, ks_attempt, ks_loads, ks_pc, ks_result, ks_error, ks_history,
    ks_view, ks_table,
    \* one call of ChartScraper.scrape_date_range
    rg_pc, rg_start, rg_end, rg_output_dir, rg_subdirs, rg_available, rg_dates,
    rg_i, rg_all_data, rg_files, rg_log, rg_result, rg_index,
    \* one call of ChartScraper.scrape_track_history
    th_pc, th_track_id, th_track_info, th_headers, th_rows_read, th_data,
    th_sessions, th_result, th_nav, th_gets, th_table,
    \* the browser sessions of one scraper over a run of its owner
    ss_owner, ss_pc, ss_scraper, ss_steps, ss_exit,
    \* one run of the Streamlit script (ui/streamlit_app.py main)
    ui_pc, ui_api_key, ui_track_url, ui_track_id, ui_insight, ui_shown,
    \* DataCleaner.deduplicate applied to a table, and to its own result
    dd_pc, dd_df, dd_result, dd_again,
    \* one call of DataCleaner.export_final
    ex_pc, ex_formats, ex_i, ex_dir, ex_engine, ex_files, ex_result,
    \* one call of KworbScraper.safe_click
    ck_pc, ck_element, ck_retries, ck_attempt, ck_log, ck_result,
    \* one call of KworbScraper.process_tracks
    pt_pc, pt_retry_count, pt_tracks, pt_i, pt_successful, pt_failed, pt_file, pt_log,
    \* run_cli after its call of scrape_date_range
    cli_pc, cli_step, cli_status

pnVars == <<pn_text, pn_pc, pn_value>>

rsVars == <<rs_kind, rs_chain, rs_st>>

ksVars == <<ks_retry_count, ks_attempt, ks_loads, ks_pc, ks_result, ks_error,
           ks_history, ks_view, ks_table>>

rgVars == <<rg_pc, rg_start, rg_end, rg_output_dir, rg_subdirs, rg_available,
           rg_dates, rg_i, rg_all_data, rg_files, rg_log, rg_result, rg_index>>

thVars == <<th_pc, th_track_id, th_track_info, th_headers, th_rows_read,
           th_data, th_sessions, th_result, th_nav, th_gets, th_table>>

ssVars == <<ss_owner, ss_pc, ss_scraper, ss_steps, ss_exit>>

uiVars == <<ui_pc, ui_api_key, ui_track_url, ui_track_id, ui_insight, ui_shown>>

ddVars == <<dd_pc, dd_df, dd_result, dd_again>>

exVars == <<ex_pc, ex_formats, ex_i, ex_dir, ex_engine, ex_files, ex_result>>

ckVars == <<ck_pc, ck_element, ck_retries, ck_attempt, ck_log, ck_result>>

ptVars == <<pt_pc, pt_retry_count, pt_tracks, pt_i, pt_successful, pt_failed, pt_file, pt_log>>

cliVars == <<cli_pc, cli_step, cli_status>>

vars == <<pn_text, pn_pc, pn_value, rs_kind, rs_chain, rs_st,
          ks_retry_count, ks_attempt, ks_loads, ks_pc, ks_result, ks_error,
          ks_history, ks_view, ks_table,
          rg_pc, rg_start, rg_end, rg_output_dir, rg_subdirs, rg_available,
          rg_dates, rg_i, rg_all_data, rg_files, rg_log, rg_result, rg_index,
          th_pc, th_track_id, th_track_info, th_headers, th_rows_read,
          th_data, th_sessions, th_result, th_nav, th_gets, th_table,
          ss_owner, ss_pc, ss_scraper, ss_steps, ss_exit,
          ui_pc, ui_api_key, ui_track_url, ui_track_id, ui_insight,
          ui_shown,
          dd_pc, dd_df, dd_result, dd_again,
          ex_pc, ex_formats, ex_i, ex_dir, ex_engine, ex_files, ex_result,
          ck_pc, ck_element, ck_retries, ck_attempt, ck_log, ck_result,
          pt_pc, pt_retry_count, pt_tracks, pt_i, pt_successful, pt_failed, pt_file, pt_log,
          cli_pc, cli_step, cli_status>>

----------------------------------------------------------------------------
(* Values held by a table cell after parsing: Python None, an int, a str.  *)

None == [tag |-> "None", n |-> 0, s |-> <<>>]

IntVal(k) == [tag |-> "int", n |-> k, s |-> <<>>]

StrVal(t) == [tag |-> "str", n |-> 0, s |-> t]

\* The outcome of an expression that raised instead of yielding a value.
Raised(exc) == [tag |-> exc, n |-> 0, s |-> <<>>]

----------------------------------------------------------------------------
(* Text helpers.                                                           *)

Digits == {"0", "1", "2", "3", "4", "5", "6", "7", "8", "9"}

DigitValue(c) ==
    CASE c = "0" -> 0 [] c = "1" -> 1 [] c = "2" -> 2 [] c = "3" -> 3
      [] c = "4" -> 4 [] c = "5" -> 5 [] c = "6" -> 6 [] c = "7" -> 7
      [] c = "8" -> 8 [] c = "9" -> 9

\* str.replace(ch, ''): every occurrence of the character is removed.
RECURSIVE RemoveChar(_, _)
RemoveChar(text, ch) ==
    IF text = <<>> THEN <<>>
    ELSE IF Head(text) = ch THEN RemoveChar(Tail(text), ch)
    ELSE <<Head(text)>> \o RemoveChar(Tail(text), ch)

\* str.strip(): leading and trailing blanks are removed.
RECURSIVE LStrip(_)
LStrip(text) ==
    IF text # <<>> /\ Head(text) = " " THEN LStrip(Tail(text)) ELSE text

RECURSIVE RStrip(_)
RStrip(text) ==
    IF text # <<>> /\ text[Len(text)] = " "
    THEN RStrip(SubSeq(text, 1, Len(text) - 1)) ELSE text

Strip(text) == RStrip(LStrip(text))

UpperCase ==
    <<"A", "B", "C", "D", "E", "F", "G", "H", "I", "J", "K", "L", "M",
      "N", "O", "P", "Q", "R", "S", "T", "U", "V", "W", "X", "Y", "Z">>

LowerCase ==
    <<"a", "b", "c", "d", "e", "f", "g", "h", "i", "j", "k", "l", "m",
      "n", "o", "p", "q", "r", "s", "t", "u", "v", "w", "x", "y", "z">>

\* str.lower()
Lower(text) ==
    [i \in 1..Len(text) |->
        IF \E k \in 1..26 : UpperCase[k] = text[i]
        THEN LowerCase[CHOOSE k \in 1..26 : UpperCase[k] = text[i]]
        ELSE text[i]]

\* list.index(x), counted from 1; 0 stands for the ValueError of a miss.
IndexOf(list, x) ==
    IF \E i \in 1..Len(list) : list[i] = x
    THEN CHOOSE i \in 1..Len(list) :
            list[i] = x /\ \A j \in 1..(i - 1) : list[j] # x
    ELSE 0

AllDigits(text) == \A i \in 1..Len(text) : text[i] \in Digits

\* The decimal value of a sequence of digits, most significant first.
RECURSIVE DecimalValue(_)
DecimalValue(text) ==
    IF text = <<>> THEN 0
    ELSE 10 * DecimalValue(SubSeq(text, 1, Len(text) - 1))
         + DigitValue(text[Len(text)])

\* int(text) for text without surrounding whitespace: an optional sign and
\* at least one digit; anything else raises ValueError.
PyInt(text) ==
    LET body == IF text # <<>> /\ Head(text) \in {"-", "+"} THEN Tail(text) ELSE text
    IN  IF body = <<>> \/ ~AllDigits(body) THEN Raised("ValueError")
        ELSE IF text # <<>> /\ Head(text) = "-" THEN IntVal(0 - DecimalValue(body))
        ELSE IntVal(DecimalValue(body))

----------------------------------------------------------------------------
(* Dates: datetime.strptime(text, '%Y/%m/%d'), strftime('%Y/%m/%d') and    *)
(* the comparison of datetimes and of strings.  A datetime is              *)
(* <<year, month, day, time of day>>; strptime yields time of day 0.       *)

\* str.split(ch)
RECURSIVE SplitOn(_, _)
SplitOn(text, ch) ==
    IF \A i \in 1..Len(text) : text[i] # ch THEN <<text>>
    ELSE LET k == CHOOSE i \in 1..Len(text) :
                    text[i] = ch /\ \A j \in 1..(i - 1) : text[j] # ch
         IN  <<SubSeq(text, 1, k - 1)>> \o SplitOn(SubSeq(text, k + 1, Len(text)), ch)

IsLeap(y) == (y % 4 = 0 /\ y % 100 # 0) \/ y % 400 = 0

DaysInMonth(y, m) ==
    IF m = 2 THEN (IF IsLeap(y) THEN 29 ELSE 28)
    ELSE IF m \in {4, 6, 9, 11} THEN 30
    ELSE 31

\* The directive %m: 1[0-2]|0[1-9]|[1-9]
MonthField(f) ==
    /\ Len(f) \in {1, 2} /\ AllDigits(f) /\ DecimalValue(f) \in 1..12

\* The directive %d: 3[01]|[12]\d|0[1-9]|[1-9]| [1-9]
DayField(f) ==
    \/ Len(f) \in {1, 2} /\ AllDigits(f) /\ DecimalValue(f) \in 1..31
    \/ Len(f) = 2 /\ f[1] = " " /\ f[2] \in Digits \ {"0"}

DayValue(f) == IF f[1] = " " THEN DigitValue(f[2]) ELSE DecimalValue(f)

NotADate == [ok |-> FALSE, dt |-> <<0, 0, 0, 0>>]

\* datetime.strptime(text, '%Y/%m/%d'); ok is FALSE for a ValueError.
StrpTime(text) ==
    LET f == SplitOn(text, "/")
    IN  IF Len(f) # 3 THEN NotADate
        ELSE IF ~(Len(f[1]) = 4 /\ AllDigits(f[1]) /\ DecimalValue(f[1]) >= 1)
        THEN NotADate
        ELSE IF ~MonthField(f[2]) \/ ~DayField(f[3]) THEN NotADate
        ELSE IF DayValue(f[3]) > DaysInMonth(DecimalValue(f[1]), DecimalValue(f[2]))
        THEN NotADate
        ELSE [ok |-> TRUE,
              dt |-> <<DecimalValue(f[1]), DecimalValue(f[2]), DayValue(f[3]), 0>>]

DigitChars == <<"0", "1", "2", "3", "4", "5", "6", "7", "8", "9">>

\* The decimal numeral of n >= 0.
RECURSIVE Numeral(_)
Numeral(n) ==
    IF n < 10 THEN <<DigitChars[n + 1]>>
    ELSE Numeral(n \div 10) \o <<DigitChars[(n % 10) + 1]>>

Pad2(n) == IF n < 10 THEN <<"0">> \o Numeral(n) ELSE Numeral(n)

\* dt.strftime('%Y/%m/%d'); %Y is the plain numeral of the year.
StrfTime(dt) == Numeral(dt[1]) \o <<"/">> \o Pad2(dt[2]) \o <<"/">> \o Pad2(dt[3])

\* a < b for datetimes
DtLess(a, b) ==
    \E k \in 1..4 : a[k] < b[k] /\ \A j \in 1..(k - 1) : a[j] = b[j]

DtLeq(a, b) == a = b \/ DtLess(a, b)

\* ord(c) for the characters of the model.
CharCode(c) ==
    IF c \in Digits THEN 48 + DigitValue(c)
    ELSE IF \E k \in 1..26 : UpperCase[k] = c
    THEN 64 + (CHOOSE k \in 1..26 : UpperCase[k] = c)
    ELSE IF \E k \in 1..26 : LowerCase[k] = c
    THEN 96 + (CHOOSE k \in 1..26 : LowerCase[k] = c)
    ELSE CASE c = " " -> 32 [] c = "," -> 44 [] c = "-" -> 45 [] c = "." -> 46
           [] c = "/" -> 47 [] c = ":" -> 58 [] c = "?" -> 63 [] c = "!" -> 33

\* a < b for strings: the first differing character decides, a proper
\* prefix is smaller.
StrLess(a, b) ==
    \/ Len(a) < Len(b) /\ \A j \in 1..Len(a) : a[j] = b[j]
    \/ \E k \in 1..Len(a) :
          /\ k <= Len(b)
          /\ CharCode(a[k]) < CharCode(b[k])
          /\ \A j \in 1..(k - 1) : a[j] = b[j]

\* sorted(dates): insertion into an ascending list, after equal elements.
RECURSIVE InsertDt(_, _)
InsertDt(sorted, dt) ==
    IF sorted = <<>> THEN <<dt>>
    ELSE IF DtLess(dt, Head(sorted)) THEN <<dt>> \o sorted
    ELSE <<Head(sorted)>> \o InsertDt(Tail(sorted), dt)

RECURSIVE SortedDts(_)
SortedDts(dates) ==
    IF dates = <<>> THEN <<>>
    ELSE InsertDt(SortedDts(SubSeq(dates, 1, Len(dates) - 1)), dates[Len(dates)])

----------------------------------------------------------------------------
(* The two parsers of a stream-count cell.                                 *)

\* _parse_number that strips nothing.
ParseNumberNoStrip(value) ==
    IF value = <<"-", "-">> \/ value = <<>> THEN None
    ELSE LET r == PyInt(value)
         IN  IF r.tag = "ValueError" THEN None ELSE r

\* ChartScraper._parse_number
ParseNumber(value) ==
    IF value = <<"-", "-">> \/ value = <<>> THEN None
    ELSE LET r == PyInt(RemoveChar(value, ","))
         IN  IF r.tag = "ValueError" THEN None ELSE r

\* KworbScraper.extract_streams, "Clean streams value": the value of
\*   int(streams.replace(',', '')) if streams != '--' else 0
\* or the ValueError it raises.
CleanStreams(streams) ==
    IF streams # <<"-", "-">> THEN PyInt(RemoveChar(streams, ","))
    ELSE IntVal(0)

----------------------------------------------------------------------------
(* The locator fallback chains: KworbScraper.wait_for_element, and the     *)
(* table_locators loop of ChartScraper.scrape_track_history around         *)
(* ChartScraper._find_element_safely.  A chain is the sequence of what the *)
(* browser answers to each locator's WebDriverWait(...).until(...).        *)

LookupOutcomes ==
    {"found", "TimeoutException", "NoSuchElementException",
     "StaleElementReferenceException", "InvalidSelectorException"}

ResolverKinds == {"wait_for_element", "find_element_safely"}

\* The except clause around one lookup.
Caught(kind, outcome) ==
    IF kind = "wait_for_element"
    THEN outcome \in {"TimeoutException", "NoSuchElementException",
                      "StaleElementReferenceException"}
    ELSE outcome = "TimeoutException"

\* A resolver before its first lookup. elem is the index of the locator
\* whose element is held, 0 for None.
ResolverStart == [i |-> 1, tried |-> <<>>, pc |-> "loop", elem |-> 0, exc |-> "none"]

\* A loop body that keeps going after a match.
TryLocatorNoBreak(kind, chain, st) ==
    LET o == chain[st.i]
    IN  IF o = "found"
        THEN [st EXCEPT !.tried = Append(@, st.i), !.i = @ + 1, !.elem = st.i]
        ELSE IF Caught(kind, o)
        THEN [st EXCEPT !.tried = Append(@, st.i), !.i = @ + 1]
        ELSE [st EXCEPT !.tried = Append(@, st.i), !.pc = "raised", !.exc = o]

\* One iteration of the loop over the chain: the lookup of locator st.i.
TryLocator(kind, chain, st) ==
    LET o == chain[st.i]
    IN  IF o = "found"
        THEN [st EXCEPT !.tried = Append(@, st.i), !.pc = "returned", !.elem = st.i]
        ELSE IF Caught(kind, o)
        THEN [st EXCEPT !.tried = Append(@, st.i), !.i = @ + 1, !.elem = 0]
        ELSE [st EXCEPT !.tried = Append(@, st.i), !.pc = "raised", !.exc = o]

\* The loop has run out of locators.
ChainExhausted(st) == [st EXCEPT !.pc = "returned"]

\* The whole resolver, as its callers see it.
RECURSIVE Resolve(_, _, _)
Resolve(kind, chain, st) ==
    IF st.pc # "loop" THEN st
    ELSE IF st.i > Len(chain) THEN ChainExhausted(st)
    ELSE Resolve(kind, chain, TryLocator(kind, chain, st))

RsIdle ==
    /\ rs_kind = "wait_for_element"
    /\ rs_chain = <<>>
    /\ rs_st = ResolverStart

----------------------------------------------------------------------------
(* Texts that occur on the pages.                                          *)

TxtDate == <<"D", "a", "t", "e">>

TxtGlobal == <<"G", "l", "o", "b", "a", "l">>

TxtUS == <<"U", "S">>

TxtGB == <<"G", "B">>

TxtPos == <<"P", "o", "s">>

TxtTotal == <<"T", "o", "t", "a", "l">>

TxtPeak == <<"P", "e", "a", "k">>

TxtLowerTotal == <<"t", "o", "t", "a", "l">>

TxtLowerPeak == <<"p", "e", "a", "k">>

Txt20230105 == <<"2", "0", "2", "3", "/", "0", "1", "/", "0", "5">>

Txt20230112 == <<"2", "0", "2", "3", "/", "0", "1", "/", "1", "2">>

Txt7 == <<"7">>

Txt1002 == <<"1", ",", "0", "0", "2">>

TxtBad == <<"x">>

\* A <tr> element: its <th> texts, its <td> texts, and whether reading its
\* cells raises StaleElementReferenceException.
HeaderRow(ths) == [th |-> ths, td |-> <<>>, stale |-> FALSE]

DataRow(tds) == [th |-> <<>>, td |-> tds, stale |-> FALSE]

StaleRow == [th |-> <<>>, td |-> <<>>, stale |-> TRUE]

----------------------------------------------------------------------------
(* KworbScraper.extract_streams: one navigate-locate-extract attempt on a  *)
(* page, and the retry loop around it.                                     *)
(* A page is what the browser answers during one attempt: nav is "ok" or   *)
(* the exception of driver.get, link and table are the answers to the      *)
(* streams_locators and table_locators chains, rows are the <tr> elements  *)
(* of the table.                                                           *)

Failed(cls, msg) == [ok |-> FALSE, data |-> <<>>, cls |-> cls, msg |-> msg]

Succeeded(data) == [ok |-> TRUE, data |-> data, cls |-> "none", msg |-> "none"]

\* for row in rows[1:]: the rows appended to data.
RECURSIVE ProcessRows(_, _, _)
ProcessRows(rows, date_idx, global_idx) ==
    IF rows = <<>> THEN <<>>
    ELSE
        LET row == Head(rows)
            rest == ProcessRows(Tail(rows), date_idx, global_idx)
            cells == row.td
        IN  IF row.stale THEN rest
            ELSE IF cells = <<>> THEN rest
            ELSE IF date_idx > Len(cells) \/ global_idx > Len(cells) THEN rest
            ELSE
                LET date == Strip(cells[date_idx])
                    streams == CleanStreams(Strip(cells[global_idx]))
                IN  IF Lower(date) \in {TxtLowerTotal, TxtLowerPeak} THEN rest
                    ELSE IF streams.tag = "ValueError" THEN rest
                    ELSE <<[date |-> date, streams |-> streams.n]>> \o rest

\* The try block of one attempt from table_locators on: the table is
\* looked for and its rows are extracted.
TableOutcome(page) ==
    LET table == Resolve("wait_for_element", page.table, ResolverStart)
        rows == page.rows
    IN  IF table.pc = "raised" THEN Failed(table.exc, table.exc)
        ELSE IF table.elem = 0
        THEN Failed("NoSuchElementException", "Could not find streams table")
        ELSE IF rows = <<>>
        THEN Failed("NoSuchElementException", "No data rows found in table")
        ELSE IF rows[1].stale
        THEN Failed("StaleElementReferenceException", "StaleElementReferenceException")
        ELSE
            LET headers == [i \in 1..Len(rows[1].th) |-> Strip(rows[1].th[i])]
                date_idx == IndexOf(headers, TxtDate)
                global_idx == IndexOf(headers, TxtGlobal)
            IN  IF date_idx = 0 \/ global_idx = 0
                THEN Failed("NoSuchElementException",
                            "Required columns not found in table")
                ELSE
                    LET data == ProcessRows(Tail(rows), date_idx, global_idx)
                    IN  IF data # <<>> THEN Succeeded(data)
                        ELSE Failed("NoSuchElementException",
                                    "No valid data rows found")

\* What the lookup of the Streams link and safe_click on it come to:
\* "raised" for an exception wait_for_element lets through, "absent" for
\* no element, else the link was clicked or safe_click returned False.
ViewSwitch(page) ==
    LET link == Resolve("wait_for_element", page.link, ResolverStart)
    IN  IF link.pc = "raised" THEN "raised"
        ELSE IF link.elem = 0 THEN "absent"
        ELSE page.click

\* An attempt that needs the Streams link to be found and clicked.
AttemptOutcomeLinkRequired(page) ==
    IF page.nav # "ok" THEN Failed(page.nav, page.nav)
    ELSE IF ViewSwitch(page) # "clicked"
    THEN Failed("NoSuchElementException", "Could not find Streams link")
    ELSE TableOutcome(page)

\* The body of the try block of one attempt.
AttemptOutcome(page) ==
    LET link == Resolve("wait_for_element", page.link, ResolverStart)
    IN  IF page.nav # "ok" THEN Failed(page.nav, page.nav)
        ELSE IF link.pc = "raised" THEN Failed(link.exc, link.exc)
        ELSE TableOutcome(page)

\* The exception classes an attempt can end with; all derive from Exception.
AttemptExceptions ==
    {"WebDriverException", "NoSuchElementException", "TimeoutException",
     "StaleElementReferenceException", "InvalidSelectorException"}

\* except Exception as e
ExtractCatches(cls) == cls \in AttemptExceptions

NoResult == [kind |-> "None", data |-> <<>>]

RowsResult(data) == [kind |-> "rows", data |-> data]

\* The end of an attempt with a success that does not return.
AfterAttemptNoReturn(attempt, retry_count, error, out) ==
    IF ~out.ok /\ ~ExtractCatches(out.cls)
    THEN [pc |-> "raised", result |-> NoResult, error |-> error]
    ELSE IF attempt < retry_count - 1
    THEN [pc |-> "loop", result |-> NoResult, error |-> error]
    ELSE IF out.ok
    THEN [pc |-> "returned", result |-> RowsResult(out.data), error |-> error]
    ELSE [pc |-> "returned", result |-> NoResult, error |-> out.msg]

\* The end of an attempt that gives up at the first failure.
AfterAttemptGiveUp(attempt, retry_count, error, out) ==
    IF out.ok
    THEN [pc |-> "returned", result |-> RowsResult(out.data), error |-> error]
    ELSE [pc |-> "returned", result |-> NoResult, error |-> out.msg]

\* The end of an attempt whose budget test is off by one.
AfterAttemptOffByOne(attempt, retry_count, error, out) ==
    IF out.ok
    THEN [pc |-> "returned", result |-> RowsResult(out.data), error |-> error]
    ELSE IF ~ExtractCatches(out.cls)
    THEN [pc |-> "raised", result |-> NoResult, error |-> error]
    ELSE IF attempt < retry_count
    THEN [pc |-> "loop", result |-> NoResult, error |-> error]
    ELSE [pc |-> "returned", result |-> NoResult, error |-> out.msg]

\* The end of an attempt: "if data: return data", or the except clause.
\* attempt is the loop variable, counted from 0.
AfterAttempt(attempt, retry_count, error, out) ==
    IF out.ok
    THEN [pc |-> "returned", result |-> RowsResult(out.data), error |-> error]
    ELSE IF ~ExtractCatches(out.cls)
    THEN [pc |-> "raised", result |-> NoResult, error |-> error]
    ELSE IF attempt < retry_count - 1
    THEN [pc |-> "loop", result |-> NoResult, error |-> error]
    ELSE [pc |-> "returned", result |-> NoResult, error |-> out.msg]

KsIdle ==
    /\ ks_retry_count = 0
    /\ ks_attempt = 0
    /\ ks_loads = 0
    /\ ks_pc = "idle"
    /\ ks_result = NoResult
    /\ ks_error = "none"
    /\ ks_history = <<>>
    /\ ks_view = "none"
    /\ ks_table = Failed("none", "none")

----------------------------------------------------------------------------
(* ChartScraper.discover_available_weeks and ChartScraper.scrape_date_range *)
(* A data frame is [cols: the set of its column names, rows: a sequence of *)
(* functions from cols to cell values].                                    *)

TxtChartDate == <<"c", "h", "a", "r", "t", "_", "d", "a", "t", "e">>

\* The market codes whose cells are parsed as numbers.
MarketCodes ==
    <<TxtGlobal, TxtUS, <<"P", "H">>, TxtGB, <<"C", "A">>, <<"I", "D">>,
      <<"A", "U">>, <<"M", "Y">>, <<"I", "E">>, <<"S", "G">>, <<"N", "O">>,
      <<"A", "R">>, <<"N", "Z">>, <<"C", "L">>, <<"A", "E">>, <<"P", "E">>,
      <<"P", "T">>, <<"N", "L">>, <<"S", "E">>, <<"F", "I">>, <<"C", "R">>>>

column_order == <<TxtChartDate>> \o MarketCodes

SeqToSet(seq) == {seq[i] : i \in 1..Len(seq)}

Min(a, b) == IF a < b THEN a ELSE b

\* The value stored for one cell under its header.
CellValue(header, text) ==
    IF header \in SeqToSet(MarketCodes) THEN ParseNumber(Strip(text))
    ELSE StrVal(Strip(text))

\* for header, cell in zip(headers, cells): what is appended to data[key].
RECURSIVE ZipAppends(_, _, _, _)
ZipAppends(headers, cells, key, i) ==
    IF i > Min(Len(headers), Len(cells)) THEN <<>>
    ELSE (IF headers[i] = key THEN <<CellValue(headers[i], cells[i])>> ELSE <<>>)
         \o ZipAppends(headers, cells, key, i + 1)

\* The list data[key] after the loop over the data rows.
RECURSIVE ColumnList(_, _, _, _)
ColumnList(headers, rows, date_str, key) ==
    IF rows = <<>> THEN <<>>
    ELSE (IF key = TxtChartDate THEN <<StrVal(date_str)>> ELSE <<>>)
         \o ZipAppends(headers, Head(rows), key, 1)
         \o ColumnList(headers, Tail(rows), date_str, key)

EmptyFrame == [cols |-> {}, rows |-> <<>>]

\* pd.DataFrame(data) for the table of one date: ok is FALSE for the
\* ValueError of lists of different lengths.
MakeBatch(table, date_str) ==
    LET headers == [i \in 1..Len(table.headers) |-> Strip(table.headers[i])]
        keys == SeqToSet(headers) \cup {TxtChartDate}
        n == Len(ColumnList(headers, table.rows, date_str, TxtChartDate))
    IN  IF \E k \in keys : Len(ColumnList(headers, table.rows, date_str, k)) # n
        THEN [ok |-> FALSE, df |-> EmptyFrame]
        ELSE [ok |-> TRUE,
              df |-> [cols |-> keys,
                      rows |-> [j \in 1..n |->
                                  [k \in keys |->
                                      ColumnList(headers, table.rows, date_str, k)[j]]]]]

\* The try block of one date: what the page of the date leads to.
DateOutcome(page, date_str) ==
    IF page.nav = "no_tables" THEN [status |-> "no_tables", df |-> EmptyFrame]
    ELSE IF page.nav # "ok" THEN [status |-> "error", df |-> EmptyFrame]
    ELSE LET b == MakeBatch(page.table, date_str)
         IN  IF b.ok THEN [status |-> "batch", df |-> b.df]
             ELSE [status |-> "error", df |-> EmptyFrame]

\* A per-date except clause that gives up on the range.
AfterDateAbort(status) == IF status = "error" THEN "raise" ELSE "loop"

\* Where the loop goes after a date: "continue" in the no-tables branch and
\* in the except clause, the next iteration after a batch.
AfterDate(status) == "loop"

\* A row of a frame widened to cols, None in the cells it lacks.
Widen(row, cols) == [c \in cols |-> IF c \in DOMAIN row THEN row[c] ELSE None]

\* pd.concat(all_data, ignore_index=True)
RECURSIVE ConcatRows(_, _)
ConcatRows(all_data, cols) ==
    IF all_data = <<>> THEN <<>>
    ELSE [j \in 1..Len(Head(all_data).rows) |-> Widen(Head(all_data).rows[j], cols)]
         \o ConcatRows(Tail(all_data), cols)

Concat(all_data) ==
    LET cols == UNION {all_data[i].cols : i \in 1..Len(all_data)}
    IN  [cols |-> cols, rows |-> ConcatRows(all_data, cols)]

\* A reorder that keeps only the declared columns the frame already has.
NormalizeColumnsPresentOnly(df) ==
    LET keep == SeqToSet(column_order) \cap df.cols
    IN  [cols |-> keep,
         rows |-> [j \in 1..Len(df.rows) |-> [c \in keep |-> df.rows[j][c]]]]

\* "Add any missing columns with None values", then "Reorder columns".
NormalizeColumns(df) ==
    LET all == df.cols \cup SeqToSet(column_order)
        keep == SeqToSet(column_order)
    IN  [cols |-> keep,
         rows |-> [j \in 1..Len(df.rows) |->
                     [c \in keep |-> Widen(df.rows[j], all)[c]]]]

MsgNoData == "Failed to scrape date range: No data scraped for the specified date range"

MsgDiscover == "Failed to scrape date range: Failed to discover available weeks"

MsgAborted == "Failed to scrape date range: date failed"

NoOutcome == [kind |-> "none", msg |-> "none", df |-> EmptyFrame]

ScrapingError(msg) == [kind |-> "ScrapingError", msg |-> msg, df |-> EmptyFrame]

\* An end of the call that wants a batch from every date.
FinishRangeAllOrNothing(all_data, ndates, raised) ==
    IF raised THEN ScrapingError(MsgAborted)
    ELSE IF Len(all_data) < ndates \/ all_data = <<>> THEN ScrapingError(MsgNoData)
    ELSE [kind |-> "table", msg |-> "none", df |-> NormalizeColumns(Concat(all_data))]

\* The end of the call: "if not all_data: raise ScrapingError", else the
\* combined frame; raised says that an exception reached the outer except.
FinishRange(all_data, ndates, raised) ==
    IF raised THEN ScrapingError(MsgAborted)
    ELSE IF all_data = <<>> THEN ScrapingError(MsgNoData)
    ELSE [kind |-> "table", msg |-> "none", df |-> NormalizeColumns(Concat(all_data))]

\* discover_available_weeks on an index page; now is datetime.now().
DiscoverAvailableWeeks(index, now) ==
    IF index.nav # "ok" \/ index.table \notin {"found", "TimeoutException"}
    THEN [ok |-> FALSE, dates |-> <<>>]
    ELSE
        LET links == IF index.table = "found" THEN index.links ELSE <<>>
            parsed == [i \in 1..Len(links) |-> StrpTime(Strip(links[i]))]
            RECURSIVE Dates(_)
            Dates(i) == IF i > Len(links) THEN <<>>
                        ELSE (IF parsed[i].ok THEN <<parsed[i].dt>> ELSE <<>>)
                             \o Dates(i + 1)
            dates == IF Dates(1) = <<>> THEN <<now>> ELSE Dates(1)
        IN  [ok |-> TRUE, dates |-> SortedDts(dates)]

\* The dates the index page publishes: the link texts that strptime reads.
IndexDates(index) ==
    IF index.nav # "ok" \/ index.table # "found" THEN {}
    ELSE {StrpTime(Strip(index.links[i])).dt :
             i \in {j \in 1..Len(index.links) : StrpTime(Strip(index.links[j])).ok}}

\* An except clause that lets the exception through as it is.
WrapErrorReraise(exc, msg) == [kind |-> exc, msg |-> msg, df |-> EmptyFrame]

\* "except Exception as e: raise ScrapingError(...)" on an exception of
\* class exc
WrapError(exc, msg) == ScrapingError(msg)

\* [d for d in available_dates if start_date <= d <= end_date]
RECURSIVE DatesToScrape(_, _, _)
DatesToScrape(available, start, end) ==
    IF available = <<>> THEN <<>>
    ELSE (IF DtLeq(start, Head(available)) /\ DtLeq(Head(available), end)
          THEN <<Head(available)>> ELSE <<>>)
         \o DatesToScrape(Tail(available), start, end)

RgIdle ==
    /\ rg_pc = "idle"
    /\ rg_start = <<0, 0, 0, 0>>
    /\ rg_end = <<0, 0, 0, 0>>
    /\ rg_output_dir = FALSE
    /\ rg_subdirs = FALSE
    /\ rg_available = <<>>
    /\ rg_dates = <<>>
    /\ rg_i = 0
    /\ rg_all_data = <<>>
    /\ rg_files = {}
    /\ rg_log = <<>>
    /\ rg_result = NoOutcome
    /\ rg_index = {}

----------------------------------------------------------------------------
(* ChartScraper.scrape_track_history: the track id, the table lookup, the  *)
(* loop over the rows and the post-processing of the frame.  A frame of    *)
(* this method is [cols: the sequence of its column names, rows: a         *)
(* sequence of functions from the column names to cell values].            *)

\* sub in text
Contains(text, sub) ==
    \E i \in 1..(Len(text) - Len(sub) + 1) : SubSeq(text, i, i + Len(sub) - 1) = sub

\* text.split(sub) for a non-empty separator
RECURSIVE SplitSub(_, _)
SplitSub(text, sub) ==
    IF ~Contains(text, sub) THEN <<text>>
    ELSE LET k == CHOOSE i \in 1..(Len(text) - Len(sub) + 1) :
                    /\ SubSeq(text, i, i + Len(sub) - 1) = sub
                    /\ \A j \in 1..(i - 1) : SubSeq(text, j, j + Len(sub) - 1) # sub
         IN  <<SubSeq(text, 1, k - 1)>>
             \o SplitSub(SubSeq(text, k + Len(sub), Len(text)), sub)

Last(list) == list[Len(list)]

\* str.isalnum()
IsAlnum(text) ==
    /\ text # <<>>
    /\ \A i \in 1..Len(text) :
          text[i] \in Digits \cup SeqToSet(UpperCase) \cup SeqToSet(LowerCase)

TxtSpotifyUrl ==
    <<"s", "p", "o", "t", "i", "f", "y", ".", "c", "o", "m", "/",
      "t", "r", "a", "c", "k", "/">>

TxtSpotifyUri ==
    <<"s", "p", "o", "t", "i", "f", "y", ":", "t", "r", "a", "c", "k", ":">>

TxtKworbUrl ==
    <<"k", "w", "o", "r", "b", ".", "n", "e", "t", "/", "s", "p", "o", "t",
      "i", "f", "y", "/", "t", "r", "a", "c", "k", "/">>

TxtTrackSlash == <<"t", "r", "a", "c", "k", "/">>

\* "Clean track ID" and "Remove any URL parts"
CleanTrackId(track_id) ==
    LET a == Strip(SplitSub(track_id, <<"?">>)[1])
    IN  IF Contains(a, TxtSpotifyUrl)
        THEN SplitSub(SplitSub(Last(SplitSub(a, TxtTrackSlash)), <<"?">>)[1],
                      <<"/">>)[1]
        ELSE IF Contains(a, TxtSpotifyUri)
        THEN SplitSub(Last(SplitSub(a, TxtSpotifyUri)), <<"?">>)[1]
        ELSE IF Contains(a, TxtKworbUrl)
        THEN SplitSub(Last(SplitSub(a, TxtTrackSlash)), <<".">>)[1]
        ELSE a

\* A validation that asks for a non-empty id only.
TrackIdCheckNonEmpty(track_id) ==
    [ok |-> CleanTrackId(track_id) # <<>>, id |-> CleanTrackId(track_id)]

\* The two validations of the track id: ok says that the page is loaded,
\* id is track_id as the method holds it afterwards.
TrackIdCheck(track_id) ==
    IF track_id = <<>> THEN [ok |-> FALSE, id |-> track_id]
    ELSE [ok |-> IsAlnum(RemoveChar(CleanTrackId(track_id), "-")),
          id |-> CleanTrackId(track_id)]

\* extract_track_id up to "Clean the track ID": the token of url
UrlToken(url) ==
    LET u == Strip(url)
    IN  Strip(IF Contains(u, TxtSpotifyUrl)
              THEN SplitSub(SplitSub(Last(SplitSub(u, TxtTrackSlash)), <<"?">>)[1],
                            <<"/">>)[1]
              ELSE IF Contains(u, TxtSpotifyUri)
              THEN SplitSub(Last(SplitSub(u, TxtSpotifyUri)), <<"?">>)[1]
              ELSE IF Contains(u, TxtKworbUrl)
              THEN SplitSub(Last(SplitSub(u, TxtTrackSlash)), <<".">>)[1]
              ELSE Strip(SplitSub(u, <<"?">>)[1]))

\* extract_track_id in ui/streamlit_app.py
ExtractTrackId(url) ==
    IF url = <<>> THEN <<>>
    ELSE IF ~IsAlnum(RemoveChar(UrlToken(url), "-")) THEN <<>>
    ELSE UrlToken(url)

TxtSongName == <<"s", "o", "n", "g", "_", "n", "a", "m", "e">>

TxtArtistName == <<"a", "r", "t", "i", "s", "t", "_", "n", "a", "m", "e">>

TxtLowerDate == <<"d", "a", "t", "e">>

TxtUnknown == <<"U", "n", "k", "n", "o", "w", "n">>

\* _extract_track_info when the page names no track
UnknownInfo == [song_name |-> TxtUnknown, artist_name |-> TxtUnknown]

\* pd.DataFrame()
EmptyTrackFrame == [cols |-> <<>>, rows |-> <<>>]

\* The keys that "Initialize data dictionary with all columns" adds to
\* data after 'date', in the order of their insertion.  No header of the
\* pages below reads 'date'.
RECURSIVE DictKeys(_, _)
DictKeys(headers, seen) ==
    IF headers = <<>> THEN <<>>
    ELSE IF Head(headers) = TxtDate \/ Head(headers) \in seen
    THEN DictKeys(Tail(headers), seen)
    ELSE <<Head(headers)>> \o DictKeys(Tail(headers), seen \cup {Head(headers)})

\* data = {'date': []} and one empty list per header other than 'Date'
InitData(headers) ==
    [date |-> <<>>,
     keys |-> DictKeys(headers, {}),
     lists |-> [k \in SeqToSet(DictKeys(headers, {})) |-> <<>>]]

\* headers.index('Date'), counted from 1, with the fallback to the first
\* column
DateIdx(headers) == IF IndexOf(headers, TxtDate) = 0 THEN 1 ELSE IndexOf(headers, TxtDate)

\* What one row appends to data[key]: the parsed cell of every column whose
\* header is key.
RECURSIVE RowAppends(_, _, _, _)
RowAppends(headers, cells, key, i) ==
    IF i > Len(headers) THEN <<>>
    ELSE (IF headers[i] = key THEN <<ParseNumber(Strip(cells[i]))>> ELSE <<>>)
         \o RowAppends(headers, cells, key, i + 1)

\* A row of the table: the texts of its cells, and whether the row element
\* is stale when its cells are asked for ("row") or goes stale after the
\* date cell was read ("cell").
TrackRow(tds, stale) == [td |-> tds, stale |-> stale]

\* The body of "for row in rows": data after the row.
ProcessRow(headers, data, row) ==
    IF row.stale = "row" THEN data
    ELSE IF Len(row.td) < Len(headers) THEN data
    ELSE IF DateIdx(headers) > Len(row.td) THEN data
    ELSE LET withDate ==
                 [data EXCEPT !.date = Append(@, Strip(row.td[DateIdx(headers)]))]
         IN  IF row.stale = "cell" THEN withDate
             ELSE [withDate EXCEPT
                     !.lists = [k \in DOMAIN @ |->
                                  @[k] \o RowAppends(headers, row.td, k, 1)]]

\* pd.DataFrame(data) with the two track columns added: ok is FALSE for the
\* ValueError of lists of different lengths.
TrackFrame(data, info) ==
    LET n == Len(data.date)
        cols == <<TxtLowerDate>> \o data.keys \o <<TxtSongName, TxtArtistName>>
    IN  IF \E k \in DOMAIN data.lists : Len(data.lists[k]) # n
        THEN [ok |-> FALSE, df |-> EmptyTrackFrame]
        ELSE [ok |-> TRUE,
              df |-> [cols |-> IF n = 0 THEN <<TxtLowerDate>> \o data.keys ELSE cols,
                      rows |-> [j \in 1..n |->
                                  [c \in SeqToSet(cols) |->
                                      IF c = TxtLowerDate THEN StrVal(data.date[j])
                                      ELSE IF c = TxtSongName THEN StrVal(info.song_name)
                                      ELSE IF c = TxtArtistName THEN StrVal(info.artist_name)
                                      ELSE data.lists[c][j]]]]]

\* A date column left as the page wrote it.
ParseDateUnchanged(date_str) == date_str

\* ChartScraper._parse_date
ParseDate(date_str) ==
    IF StrpTime(date_str).ok THEN StrfTime(StrpTime(date_str).dt) ELSE date_str

special_rows == {TxtTotal, TxtPeak}

IsSpecialRow(row) == row[TxtLowerDate].s \in special_rows

\* The orders sort_values('date', ascending=False) can leave the rows in:
\* descending by string comparison, rows of equal date in any order.
SortOrders(rows) ==
    {p \in Permutations(1..Len(rows)) :
        \A i \in 1..(Len(rows) - 1) :
            ~StrLess(rows[p[i]][TxtLowerDate].s, rows[p[i + 1]][TxtLowerDate].s)}

\* ['song_name', 'artist_name', 'date'] and then the other columns
ReorderCols(cols) ==
    <<TxtSongName, TxtArtistName, TxtLowerDate>>
    \o SelectSeq(cols, LAMBDA c : c \notin {TxtSongName, TxtArtistName, TxtLowerDate})

\* "Process the data" to the return: the frames the method can return for
\* a non-empty frame df.
PostProcess(df) ==
    LET parsed == [j \in 1..Len(df.rows) |->
                     [df.rows[j] EXCEPT
                         ![TxtLowerDate] = StrVal(ParseDate(df.rows[j][TxtLowerDate].s))]]
        total_peak == SelectSeq(parsed, IsSpecialRow)
        regular == SelectSeq(parsed, LAMBDA row : ~IsSpecialRow(row))
    IN  {[cols |-> ReorderCols(df.cols),
          rows |-> total_peak \o [i \in 1..Len(regular) |-> regular[p[i]]]] :
            p \in SortOrders(regular)}

\* The exception classes the try block can end with; all derive from
\* Exception.
TrackExceptions ==
    {"WebDriverException", "OSError", "ValueError", "NoSuchElementException",
     "StaleElementReferenceException", "InvalidSelectorException"}

\* An outer except clause for the exceptions of the browser only.
TrackCatchesBrowserOnly(exc) == exc \in TrackExceptions \ {"OSError", "ValueError"}

\* except Exception as e
TrackCatches(exc) == exc \in TrackExceptions

\* From "Create DataFrame" to the return, and the outer except clause.
TrackOutcomes(data, info) ==
    IF ~TrackFrame(data, info).ok THEN {EmptyTrackFrame}
    ELSE IF TrackFrame(data, info).df.rows = <<>> THEN {TrackFrame(data, info).df}
    ELSE PostProcess(TrackFrame(data, info).df)

ThIdle ==
    /\ th_pc = "idle"
    /\ th_track_id = <<>>
    /\ th_track_info = UnknownInfo
    /\ th_headers = <<>>
    /\ th_rows_read = 0
    /\ th_data = InitData(<<>>)
    /\ th_sessions = 1
    /\ th_result = EmptyTrackFrame
    /\ th_nav = "none"
    /\ th_gets = 0
    /\ th_table = FALSE

----------------------------------------------------------------------------
(* The browser sessions of a scraper.  A scraper is [driver: the session   *)
(* self.driver refers to, 0 while the attribute is not set; live: the      *)
(* sessions started and not quit; opened: the number of sessions started;  *)
(* raised: whether the last call on it raised].                            *)

NoScraper == [driver |-> 0, live |-> {}, opened |-> 0, raised |-> FALSE]

\* What starting a browser can lead to: "ok"; "chrome", webdriver.Chrome
\* raises and no session is started; "setup", a call on the new session
\* raises after self.driver was assigned (ChartScraper only).
InitOutcomes(owner) ==
    IF owner = "with" THEN {"ok", "chrome"} ELSE {"ok", "chrome", "setup"}

\* ChartScraper._init_selenium, and KworbScraper.__init__ with init_driver:
\* the new session is assigned to self.driver, whatever it held before.
InitSelenium(scraper, outcome) ==
    IF outcome = "chrome" THEN [scraper EXCEPT !.raised = TRUE]
    ELSE [driver |-> scraper.opened + 1,
          live |-> scraper.live \cup {scraper.opened + 1},
          opened |-> scraper.opened + 1,
          raised |-> outcome = "setup"]

\* KworbScraper.__exit__ and ChartScraper.__del__:
\*   if hasattr(self, 'driver'): self.driver.quit()
QuitDriver(scraper) ==
    IF scraper.driver = 0 THEN scraper
    ELSE [scraper EXCEPT !.live = @ \ {scraper.driver}]

\* "Check if we're being blocked" in scrape_track_history: the scraper
\* after the branch; the exception of _init_selenium stays inside the call.
BlockedPage(scraper, outcome) == [InitSelenium(scraper, outcome) EXCEPT !.raised = FALSE]

SsIdle ==
    /\ ss_owner = "none"
    /\ ss_pc = "idle"
    /\ ss_scraper = NoScraper
    /\ ss_steps = 0
    /\ ss_exit = "none"

UiIdle ==
    /\ ui_pc = "idle"
    /\ ui_api_key = "none"
    /\ ui_track_url = <<>>
    /\ ui_track_id = <<>>
    /\ ui_insight = "none"
    /\ ui_shown = {}

\* No outcome of deduplicate yet
DdNone == [kind |-> "none", df |-> [cols |-> {}, rows |-> <<>>]]

DdIdle ==
    /\ dd_pc = "idle"
    /\ dd_df = DdNone.df
    /\ dd_result = DdNone
    /\ dd_again = DdNone

ExIdle ==
    /\ ex_pc = "idle"
    /\ ex_formats = <<>>
    /\ ex_i = 0
    /\ ex_dir = FALSE
    /\ ex_engine = FALSE
    /\ ex_files = <<>>
    /\ ex_result = "none"

CkIdle ==
    /\ ck_pc = "idle"
    /\ ck_element = FALSE
    /\ ck_retries = 0
    /\ ck_attempt = 0
    /\ ck_log = <<>>
    /\ ck_result = "none"

\* The output file before it is opened.
NoFile == [header |-> FALSE, rows |-> <<>>]

PtIdle ==
    /\ pt_pc = "idle"
    /\ pt_retry_count = 0
    /\ pt_tracks = <<>>
    /\ pt_i = 0
    /\ pt_successful = 0
    /\ pt_failed = 0
    /\ pt_file = NoFile
    /\ pt_log = <<>>

CliIdle ==
    /\ cli_pc = "idle"
    /\ cli_step = "none"
    /\ cli_status = 0

----------------------------------------------------------------------------
(* Specification SpecParse: a cell text is drawn, then parsed by one of    *)
(* the two parsers.                                                        *)

MaxTextLen == 5

CellChars == {"0", "1", "2", ",", "-", "x"}

RECURSIVE TextsOfLen(_)
TextsOfLen(n) ==
    IF n = 0 THEN {<<>>}
    ELSE {<<c>> \o t : c \in CellChars, t \in TextsOfLen(n - 1)}

CellTexts == UNION {TextsOfLen(n) : n \in 0..MaxTextLen}

PnIdle ==
    /\ pn_text = <<>>
    /\ pn_pc = "idle"
    /\ pn_value = None

PnInit ==
    /\ pn_text \in CellTexts
    /\ pn_pc = "cell"
    /\ pn_value = None
    /\ RsIdle /\ KsIdle /\ RgIdle /\ ThIdle /\ SsIdle /\ UiIdle /\ DdIdle /\ ExIdle /\ CkIdle /\ PtIdle /\ CliIdle

\* ChartScraper._parse_number(value)
PnParseNumber ==
    /\ pn_pc = "cell"
    /\ pn_value' = ParseNumber(pn_text)
    /\ pn_pc' = "parse_number"
    /\ UNCHANGED pn_text
    /\ UNCHANGED <<rsVars, ksVars, rgVars, thVars, ssVars, uiVars, ddVars, exVars, ckVars, ptVars, cliVars>>

\* The streams cell of KworbScraper.extract_streams
PnCleanStreams ==
    /\ pn_pc = "cell"
    /\ pn_value' = CleanStreams(pn_text)
    /\ pn_pc' = "clean_streams"
    /\ UNCHANGED pn_text
    /\ UNCHANGED <<rsVars, ksVars, rgVars, thVars, ssVars, uiVars, ddVars, exVars, ckVars, ptVars, cliVars>>

PnNext ==
    \/ PnParseNumber
    \/ PnCleanStreams

SpecParse == PnInit /\ [][PnNext]_vars

Placeholder == <<"-", "-">>

\* C8: every numeric cell whose text is the placeholder "--" or the empty
\* string parses to null, never to zero, in every path that parses stream
\* counts (ChartScraper._parse_number and the streams cell of
\* KworbScraper.extract_streams): whenever such a cell yields a value at
\* all, the value is None.
C8_PlaceholderParsesToNull ==
    (/\ pn_pc # "cell"
     /\ pn_text \in {Placeholder, <<>>}
     /\ pn_value.tag # "ValueError") => pn_value = None

\* Text made of digit groups joined by single thousands separators.
DigitGroups(text) ==
    /\ text # <<>>
    /\ \A i \in 1..Len(text) : text[i] \in Digits \cup {","}
    /\ text[1] \in Digits /\ text[Len(text)] \in Digits
    /\ \A i \in 1..(Len(text) - 1) : ~(text[i] = "," /\ text[i + 1] = ",")

\* The integer written by the digits of text, read left to right.
RECURSIVE GroupsValue(_, _, _)
GroupsValue(text, i, acc) ==
    IF i > Len(text) THEN acc
    ELSE IF text[i] = "," THEN GroupsValue(text, i + 1, acc)
    ELSE GroupsValue(text, i + 1, 10 * acc + DigitValue(text[i]))

\* C9: for every cell text made of digit groups joined by thousands
\* separators, _parse_number yields the integer written by its digits.
C9_SeparatorsStripped ==
    (pn_pc = "parse_number" /\ DigitGroups(pn_text))
        => pn_value = IntVal(GroupsValue(pn_text, 1, 0))

C9_Witness ==
    /\ pn_pc = "parse_number"
    /\ pn_text = <<"1", ",", "0", "0", "2">>
    /\ pn_value = IntVal(1002)

----------------------------------------------------------------------------
(* Specification SpecResolver: one run of a locator chain, one lookup per  *)
(* step.                                                                   *)

MaxChain == 3

RECURSIVE ChainsOfLen(_)
ChainsOfLen(n) ==
    IF n = 0 THEN {<<>>}
    ELSE {<<o>> \o c : o \in LookupOutcomes, c \in ChainsOfLen(n - 1)}

Chains == UNION {ChainsOfLen(n) : n \in 0..MaxChain}

RsInit ==
    /\ rs_kind \in ResolverKinds
    /\ rs_chain \in Chains
    /\ rs_st = ResolverStart
    /\ PnIdle /\ KsIdle /\ RgIdle /\ ThIdle /\ SsIdle /\ UiIdle /\ DdIdle /\ ExIdle /\ CkIdle /\ PtIdle /\ CliIdle

\* for by, locator in locator_chain: try ... return element / except ... continue
RsTryLocator ==
    /\ rs_st.pc = "loop"
    /\ rs_st.i <= Len(rs_chain)
    /\ rs_st' = TryLocator(rs_kind, rs_chain, rs_st)
    /\ UNCHANGED <<rs_kind, rs_chain>>
    /\ UNCHANGED <<pnVars, ksVars, rgVars, thVars, ssVars, uiVars, ddVars, exVars, ckVars, ptVars, cliVars>>

\* the loop ends without a match: return None
RsExhausted ==
    /\ rs_st.pc = "loop"
    /\ rs_st.i > Len(rs_chain)
    /\ rs_st' = ChainExhausted(rs_st)
    /\ UNCHANGED <<rs_kind, rs_chain>>
    /\ UNCHANGED <<pnVars, ksVars, rgVars, thVars, ssVars, uiVars, ddVars, exVars, ckVars, ptVars, cliVars>>

RsNext ==
    \/ RsTryLocator
    \/ RsExhausted

SpecResolver == RsInit /\ [][RsNext]_vars

\* The index of the first locator of the chain that matches, 0 if none does.
LowestMatch(chain) ==
    IF \E j \in 1..Len(chain) : chain[j] = "found"
    THEN CHOOSE j \in 1..Len(chain) :
            /\ chain[j] = "found"
            /\ \A k \in 1..(j - 1) : chain[k] # "found"
    ELSE 0

\* C3: the resolver tries the locators strictly in list order; a locator is
\* tried only after every earlier one has been tried and has failed; no
\* locator after the first match is tried; and what the resolver returns is
\* the element of the lowest-indexed locator that matches (None when no
\* locator matches).
C3_ResolverOrdering ==
    /\ \A p \in 1..Len(rs_st.tried) : rs_st.tried[p] = p
    /\ Len(rs_st.tried) <= Len(rs_chain)
    /\ \A p \in 1..Len(rs_st.tried) :
          \A j \in 1..(p - 1) : rs_chain[j] # "found"
    /\ \A p \in 1..Len(rs_st.tried) :
          rs_chain[p] = "found" => p = Len(rs_st.tried)
    /\ rs_st.pc = "returned" => rs_st.elem = LowestMatch(rs_chain)

C3_Witness ==
    /\ rs_st.pc = "returned"
    /\ rs_chain = <<"TimeoutException", "found", "found">>
    /\ rs_st.tried = <<1, 2>>
    /\ rs_st.elem = 2

\* C4: whatever way each lookup fails (timeout, element absent, stale
\* element, or any other lookup error such as an invalid selector), no
\* exception escapes the resolver: it ends by returning, and returns None
\* once all locators are exhausted.
C4_ResolverNeverRaises ==
    /\ rs_st.pc # "raised"
    /\ (rs_st.pc = "returned" /\ LowestMatch(rs_chain) = 0) => rs_st.elem = 0

----------------------------------------------------------------------------
(* Specification SpecExtract: one call of KworbScraper.extract_streams,    *)
(* one attempt per step; each attempt meets a page drawn from KsPages.     *)

MaxRetry == 3

AllTimeout(n) == [i \in 1..n |-> "TimeoutException"]

\* streams_locators has 5 entries.
KsLinkChains ==
    {AllTimeout(5),
     [i \in 1..5 |-> "found"],
     [i \in 1..5 |-> IF i < 3 THEN "NoSuchElementException" ELSE "found"],
     [i \in 1..5 |-> IF i < 2 THEN "TimeoutException" ELSE "InvalidSelectorException"]}

\* table_locators has 3 entries.
KsTableChains ==
    {[i \in 1..3 |-> "found"],
     <<"TimeoutException", "found", "InvalidSelectorException">>,
     <<"TimeoutException", "TimeoutException", "InvalidSelectorException">>,
     AllTimeout(3)}

KsTables ==
    {<<>>,
     <<HeaderRow(<<TxtPos, TxtGlobal>>), DataRow(<<Txt7, Txt7>>)>>,
     <<HeaderRow(<<TxtDate, TxtGlobal>>)>>,
     <<HeaderRow(<<TxtDate, TxtGlobal>>), DataRow(<<Txt20230105, Txt7>>)>>,
     <<HeaderRow(<<TxtDate, TxtGlobal>>), DataRow(<<TxtTotal, Txt1002>>),
       DataRow(<<Txt20230112, Txt1002>>), DataRow(<<Txt20230105, Placeholder>>)>>,
     <<HeaderRow(<<TxtDate, TxtUS, TxtGlobal>>), DataRow(<<Txt20230112, Txt7>>),
       DataRow(<<Txt20230105, Txt7, TxtBad>>), StaleRow, DataRow(<<>>),
       DataRow(<<TxtPeak, Txt7, Txt7>>)>>,
     <<StaleRow>>}

KsPages ==
    [nav : {"ok", "WebDriverException"}, link : KsLinkChains,
     click : {"clicked", "failed"}, table : KsTableChains, rows : KsTables]

KsInit ==
    /\ ks_retry_count \in 0..MaxRetry
    /\ ks_attempt = 0
    /\ ks_loads = 0
    /\ ks_pc = "loop"
    /\ ks_result = NoResult
    /\ ks_error = "none"
    /\ ks_history = <<>>
    /\ ks_view = "none"
    /\ ks_table = Failed("none", "none")
    /\ PnIdle /\ RsIdle /\ RgIdle /\ ThIdle /\ SsIdle /\ UiIdle /\ DdIdle /\ ExIdle /\ CkIdle /\ PtIdle /\ CliIdle

\* One iteration of "for attempt in range(self.retry_count)".
KsAttempt ==
    /\ ks_pc = "loop"
    /\ ks_attempt < ks_retry_count
    /\ \E page \in KsPages :
          LET out == AttemptOutcome(page)
              nxt == AfterAttempt(ks_attempt, ks_retry_count, ks_error, out)
              view == IF page.nav = "ok" THEN ViewSwitch(page) ELSE "none"
          IN  /\ ks_history' = Append(ks_history, out)
              /\ ks_view' = view
              /\ ks_table' = IF view \in {"none", "raised"} THEN Failed("none", "none")
                              ELSE TableOutcome(page)
              /\ ks_pc' = nxt.pc
              /\ ks_result' = nxt.result
              /\ ks_error' = nxt.error
    /\ ks_attempt' = ks_attempt + 1
    /\ ks_loads' = ks_loads + 1
    /\ UNCHANGED ks_retry_count
    /\ UNCHANGED <<pnVars, rsVars, rgVars, thVars, ssVars, uiVars, ddVars, exVars, ckVars, ptVars, cliVars>>

\* The loop is over without a return from its body: "return None".
KsLoopEnd ==
    /\ ks_pc = "loop"
    /\ ks_attempt >= ks_retry_count
    /\ ks_pc' = "returned"
    /\ ks_result' = NoResult
    /\ UNCHANGED <<ks_retry_count, ks_attempt, ks_loads, ks_error, ks_history,
                   ks_view, ks_table>>
    /\ UNCHANGED <<pnVars, rsVars, rgVars, thVars, ssVars, uiVars, ddVars, exVars, ckVars, ptVars, cliVars>>

KsNext ==
    \/ KsAttempt
    \/ KsLoopEnd

SpecExtract == KsInit /\ [][KsNext]_vars

\* C1: if the first k attempts fail and attempt k+1 succeeds (0 <= k <
\* retry_count), extract_streams has returned the rows extracted by attempt
\* k+1 after exactly k+1 attempts and k+1 page loads, and no attempt follows.
C1_ReturnsOnFirstSuccess ==
    \A n \in 1..Len(ks_history) :
        ks_history[n].ok =>
            /\ \A j \in 1..(n - 1) : ~ks_history[j].ok
            /\ n <= ks_retry_count
            /\ ks_pc = "returned"
            /\ ks_result = RowsResult(ks_history[n].data)
            /\ ks_history[n].data # <<>>
            /\ ks_attempt = n
            /\ ks_loads = n
            /\ Len(ks_history) = n

C1_Witness ==
    /\ ks_retry_count = 3
    /\ Len(ks_history) = 3
    /\ ~ks_history[1].ok /\ ~ks_history[2].ok /\ ks_history[3].ok
    /\ ks_pc = "returned"
    /\ ks_result.kind = "rows"
    /\ ks_loads = 3

\* C2: if every attempt fails, then for every retry_count >= 1 the call
\* makes exactly retry_count attempts, returns None with track.error set to
\* the error of the last attempt, and never raises to its caller.
C2_ExhaustedReturnsNone ==
    /\ ks_pc # "raised"
    /\ (ks_pc = "loop" /\ ks_retry_count >= 1) => ks_attempt < ks_retry_count
    /\ (/\ ks_pc = "returned"
        /\ ks_retry_count >= 1
        /\ \A n \in 1..Len(ks_history) : ~ks_history[n].ok)
          => /\ ks_attempt = ks_retry_count
             /\ Len(ks_history) = ks_retry_count
             /\ ks_loads = ks_retry_count
             /\ ks_result = NoResult
             /\ ks_error = ks_history[ks_retry_count].msg

C2_Witness ==
    /\ ks_pc = "returned"
    /\ ks_retry_count = 3
    /\ Len(ks_history) = 3
    /\ ks_history[1].msg = "WebDriverException"
    /\ ks_history[2].msg = "Required columns not found in table"
    /\ ks_history[3].msg = "No valid data rows found"
    /\ ks_result = NoResult
    /\ ks_error = "No valid data rows found"

----------------------------------------------------------------------------
(* Specification SpecRange: one call of scrape_date_range: the discovery   *)
(* of the available weeks, one date per step, then the combination.        *)

MaxLinks == 3

Txt20230119 == <<"2", "0", "2", "3", "/", "0", "1", "/", "1", "9">>

\* The texts of the links of the index page.
RgLinkTexts == {Txt20230105, Txt20230112, Txt20230119, TxtGlobal}

RECURSIVE LinkListsOfLen(_)
LinkListsOfLen(n) ==
    IF n = 0 THEN {<<>>}
    ELSE {<<t>> \o l : t \in RgLinkTexts, l \in LinkListsOfLen(n - 1)}

RgIndexPages ==
    [nav : {"ok", "WebDriverException"},
     table : {"found", "TimeoutException", "WebDriverException"},
     links : UNION {LinkListsOfLen(n) : n \in 0..MaxLinks}]

\* The values datetime.now() takes.
RgNows == {<<2023, 1, 12, 1>>}

RgStarts == {<<2023, 1, 5, 0>>, <<2023, 1, 12, 0>>}

RgEnds == {<<2023, 1, 12, 0>>, <<2023, 1, 19, 0>>}

NoTable == [headers |-> <<>>, rows |-> <<>>]

\* The first table of the page of a date: header texts and, per data row,
\* the texts of its cells.
RgTables ==
    {[headers |-> <<TxtGlobal, TxtUS>>,
      rows |-> <<<<Txt1002, Txt7>>, <<Txt7, Placeholder>>>>],
     [headers |-> <<TxtGlobal, TxtGB>>, rows |-> <<<<Txt7, Txt1002>>>>],
     [headers |-> <<TxtPos, TxtGlobal>>, rows |-> <<<<Txt7, Txt7>>, <<Txt7>>>>],
     [headers |-> <<TxtPos, TxtGlobal>>, rows |-> <<<<Txt7, Txt1002, TxtBad>>>>],
     [headers |-> <<TxtGlobal, TxtUS>>, rows |-> <<>>]}

RgPages ==
    [nav : {"ok"}, table : RgTables]
        \cup [nav : {"WebDriverException", "TimeoutException", "no_tables"},
              table : {NoTable}]

RgInit ==
    /\ rg_pc = "start"
    /\ rg_start \in RgStarts
    /\ rg_end \in RgEnds
    /\ rg_output_dir \in BOOLEAN
    /\ rg_subdirs \in (IF rg_output_dir THEN BOOLEAN ELSE {FALSE})
    /\ rg_available = <<>>
    /\ rg_dates = <<>>
    /\ rg_i = 0
    /\ rg_all_data = <<>>
    /\ rg_files = {}
    /\ rg_log = <<>>
    /\ rg_result = NoOutcome
    /\ rg_index = {}
    /\ PnIdle /\ RsIdle /\ KsIdle /\ ThIdle /\ SsIdle /\ UiIdle /\ DdIdle /\ ExIdle /\ CkIdle /\ PtIdle /\ CliIdle

\* available_dates = self.discover_available_weeks(); dates_to_scrape = ...
RgDiscover ==
    /\ rg_pc = "start"
    /\ \E index \in RgIndexPages, now \in RgNows :
          LET found == DiscoverAvailableWeeks(index, now)
          IN  IF found.ok
              THEN /\ rg_available' = found.dates
                   /\ rg_dates' = DatesToScrape(found.dates, rg_start, rg_end)
                   /\ rg_i' = 1
                   /\ rg_index' = IndexDates(index)
                   /\ rg_pc' = "loop"
                   /\ UNCHANGED rg_result
              ELSE /\ rg_result' = WrapError("WebDriverException", MsgDiscover)
                   /\ rg_pc' = "done"
                   /\ UNCHANGED <<rg_available, rg_dates, rg_i, rg_index>>
    /\ UNCHANGED <<rg_start, rg_end, rg_output_dir, rg_subdirs, rg_all_data,
                   rg_files, rg_log>>
    /\ UNCHANGED <<pnVars, rsVars, ksVars, thVars, ssVars, uiVars, ddVars, exVars, ckVars, ptVars, cliVars>>

\* One iteration of "for date in dates_to_scrape".  The snapshot path is
\* output_dir / "chart_YYYY/MM/DD.csv": date_str carries its slashes into
\* the file name, mkdir creates output_dir only, and df.to_csv raises OSError
\* unless the directory chart_YYYY/MM is already there (rg_subdirs).
RgScrapeDate ==
    /\ rg_pc = "loop"
    /\ rg_i <= Len(rg_dates)
    /\ \E page \in RgPages :
          LET date_str == StrfTime(rg_dates[rg_i])
              out == DateOutcome(page, date_str)
              saved == out.status = "batch" /\ rg_output_dir /\ rg_subdirs
              save_failed == out.status = "batch" /\ rg_output_dir /\ ~rg_subdirs
          IN  /\ rg_all_data' = IF out.status = "batch"
                                 THEN Append(rg_all_data, out.df) ELSE rg_all_data
              /\ rg_files' = IF saved THEN rg_files \cup {date_str} ELSE rg_files
              /\ rg_log' = Append(rg_log,
                                  [date |-> date_str, status |-> out.status,
                                   nrows |-> Len(page.table.rows),
                                   saved |-> saved,
                                   headers |-> Len(page.table.headers),
                                   cells |-> [j \in 1..Len(page.table.rows) |->
                                                Len(page.table.rows[j])],
                                   kept |-> Len(out.df.rows)])
              /\ rg_pc' = AfterDate(IF save_failed THEN "error" ELSE out.status)
    /\ rg_i' = rg_i + 1
    /\ UNCHANGED <<rg_start, rg_end, rg_output_dir, rg_subdirs, rg_available,
                   rg_dates, rg_result, rg_index>>
    /\ UNCHANGED <<pnVars, rsVars, ksVars, thVars, ssVars, uiVars, ddVars, exVars, ckVars, ptVars, cliVars>>

\* After the loop: raise ScrapingError or return the combined frame.
RgFinish ==
    /\ \/ rg_pc = "loop" /\ rg_i > Len(rg_dates)
       \/ rg_pc = "raise"
    /\ rg_result' = FinishRange(rg_all_data, Len(rg_dates), rg_pc = "raise")
    /\ rg_pc' = "done"
    /\ UNCHANGED <<rg_start, rg_end, rg_output_dir, rg_subdirs, rg_available,
                   rg_dates, rg_i, rg_all_data, rg_files, rg_log, rg_index>>
    /\ UNCHANGED <<pnVars, rsVars, ksVars, thVars, ssVars, uiVars, ddVars, exVars, ckVars, ptVars, cliVars>>

RgNext ==
    \/ RgDiscover
    \/ RgScrapeDate
    \/ RgFinish

SpecRange == RgInit /\ [][RgNext]_vars

\* The chart_date cells the dates with a batch account for: each date once
\* per data row of its page, in the order of the attempts.
RECURSIVE ExpectedChartDates(_)
ExpectedChartDates(log) ==
    IF log = <<>> THEN <<>>
    ELSE (IF Head(log).status = "batch"
          THEN [j \in 1..Head(log).nrows |-> StrVal(Head(log).date)]
          ELSE <<>>)
         \o ExpectedChartDates(Tail(log))

\* C5: when the page scrape of one date fails and at least one other date
\* succeeds, scrape_date_range does not raise and the returned table holds
\* exactly the rows of the successful dates, in order, and none for a date
\* that failed.
C5_FailedDateIsSkipped ==
    (/\ rg_pc = "done"
     /\ \E n \in 1..Len(rg_log) : rg_log[n].status # "batch"
     /\ \E n \in 1..Len(rg_log) : rg_log[n].status = "batch")
        => /\ rg_result.kind = "table"
           /\ [j \in 1..Len(rg_result.df.rows) |-> rg_result.df.rows[j][TxtChartDate]]
                = ExpectedChartDates(rg_log)
           /\ \A n \in 1..Len(rg_log) :
                (\A k \in 1..Len(rg_log) :
                    rg_log[k].date = rg_log[n].date => rg_log[k].status # "batch")
                  => \A j \in 1..Len(rg_result.df.rows) :
                        rg_result.df.rows[j][TxtChartDate] # StrVal(rg_log[n].date)

C5_Witness ==
    /\ rg_pc = "done"
    /\ Len(rg_log) = 3
    /\ rg_log[1].status = "batch" /\ rg_log[1].date = Txt20230105
    /\ rg_log[2].status = "error" /\ rg_log[2].date = Txt20230112
    /\ rg_log[3].status = "batch" /\ rg_log[3].date = Txt20230119
    /\ rg_result.kind = "table"
    /\ Len(rg_result.df.rows) = 2
    /\ rg_result.df.rows[1][TxtChartDate] = StrVal(Txt20230105)
    /\ rg_result.df.rows[2][TxtChartDate] = StrVal(Txt20230119)

\* C6: scrape_date_range raises its fatal error if and only if zero dates
\* produced a batch (after a successful discovery that error is the
\* no-data error); with at least one batch it returns the combined table.
C6_FatalIffNoBatch ==
    rg_pc = "done" =>
        /\ rg_result.kind \in {"ScrapingError", "table"}
        /\ rg_result.kind = "ScrapingError"
              <=> \A n \in 1..Len(rg_log) : rg_log[n].status # "batch"
        /\ rg_result.kind = "table" <=> rg_all_data # <<>>
        /\ (rg_i >= 1 /\ rg_all_data = <<>>) => rg_result = ScrapingError(MsgNoData)

C6_Witness ==
    /\ rg_pc = "done"
    /\ Len(rg_log) = 2
    /\ rg_log[1].status = "error" /\ rg_log[2].status = "no_tables"
    /\ rg_result = ScrapingError(MsgNoData)

\* The batch, and the row of it, that row j of the combined table comes from.
RECURSIVE RowSource(_, _)
RowSource(all_data, j) ==
    IF j <= Len(Head(all_data).rows) THEN Head(all_data).rows[j]
    ELSE RowSource(Tail(all_data), j - Len(Head(all_data).rows))

BatchDates == {rg_log[n].date : n \in {m \in 1..Len(rg_log) : rg_log[m].status = "batch"}}

\* C14: when an output directory is given, the dates that have a snapshot
\* file are exactly the dates whose batch is in the aggregate, after every
\* date and at the end of the call.
C14_SnapshotPerBatch ==
    (rg_pc \in {"loop", "done"} /\ rg_output_dir) => rg_files = BatchDates

\* C15: the dates the call attempts are exactly the dates of the index page
\* with start <= date <= end, each of them once, in ascending order.
C15_AttemptsAreIndexWindow ==
    (rg_pc \in {"loop", "done"} /\ rg_i >= 1) =>
        /\ SeqToSet(rg_dates) =
              {d \in rg_index : DtLeq(rg_start, d) /\ DtLeq(d, rg_end)}
        /\ \A i, j \in 1..Len(rg_dates) :
              i < j => rg_dates[i] # rg_dates[j] /\ DtLeq(rg_dates[i], rg_dates[j])
        /\ \A n \in 1..Len(rg_log) : rg_log[n].date = StrfTime(rg_dates[n])

\* C17: the message of the fatal error of a call whose window holds dates
\* that all failed differs from the message of a call whose window holds
\* no date.
C17_FatalMessagesDiffer ==
    (rg_pc = "done" /\ Len(rg_dates) >= 1 /\ rg_result.kind = "ScrapingError") =>
        rg_result.msg # FinishRange(<<>>, 0, FALSE).msg

\* C23: of the rows of a page that was loaded with its table, the rows
\* taken into the batch are exactly those with as many cells as the table
\* has headers; a row with fewer or more cells is left out and the other
\* rows of the page are still extracted.
C23_RowsWithHeaderCountAccepted ==
    \A n \in 1..Len(rg_log) :
        rg_log[n].headers > 0 =>
            /\ rg_log[n].status = "batch"
            /\ rg_log[n].kept =
                  Cardinality({j \in 1..rg_log[n].nrows :
                                  rg_log[n].cells[j] = rg_log[n].headers})

\* C20: a call that ends without a table ends with a ScrapingError, whether
\* the discovery of the weeks failed or no date gave a batch.
C20_OnlyScrapingErrorSurfaces ==
    (rg_pc = "done" /\ rg_result.kind # "table") => rg_result.kind = "ScrapingError"

C20_Witness ==
    /\ rg_pc = "done"
    /\ rg_i = 0
    /\ rg_log = <<>>
    /\ rg_result = ScrapingError(MsgDiscover)

----------------------------------------------------------------------------
(* Specification SpecTrack: one call of scrape_track_history(track_id).    *)
(* The track id is drawn first; the page, the answers of the browser to    *)
(* the table locators and the rows of the table are drawn as the method    *)
(* reaches them.                                                           *)

\* The largest number of rows in a table.
MaxRows == 3

\* The track ids handed to the method; <<>> is the empty string.
ThTrackIds ==
    {<<>>,
     <<"a", "1", "B">>,
     <<" ", "a", "-", "1", " ">>,
     <<"a", "1", "B", "?", "s", "i", "=", "2">>,
     <<"o", "p", "e", "n", ".", "s", "p", "o", "t", "i", "f", "y", ".", "c",
       "o", "m", "/", "t", "r", "a", "c", "k", "/", "a", "1", "B", "?", "s",
       "i", "=", "2">>,
     <<"s", "p", "o", "t", "i", "f", "y", ":", "t", "r", "a", "c", "k", ":",
       "a", "1", "B">>,
     <<"k", "w", "o", "r", "b", ".", "n", "e", "t", "/", "s", "p", "o", "t",
       "i", "f", "y", "/", "t", "r", "a", "c", "k", "/", "a", "1", "B", ".",
       "h", "t", "m", "l">>,
     <<"a", " ", "1">>,
     <<"a", "/", "1">>}

ThTrackInfos == {[song_name |-> <<"S">>, artist_name |-> <<"A">>], UnknownInfo}

\* What loading the page leads to before the table is looked for: the
\* page, an exception of driver.get, a 404 title, a blocked page, or an
\* OSError of a debug file.
ThNavs == {"ok", "WebDriverException", "404", "denied", "OSError"}

\* The answers to the seven table_locators.
ThChains ==
    {<<"found", "found", "found", "found", "found", "found", "found">>,
     <<"TimeoutException", "TimeoutException", "TimeoutException",
       "TimeoutException", "TimeoutException", "found", "TimeoutException">>,
     <<"TimeoutException", "TimeoutException", "TimeoutException",
       "TimeoutException", "TimeoutException", "TimeoutException",
       "TimeoutException">>,
     <<"TimeoutException", "InvalidSelectorException", "found", "found",
       "found", "found", "found">>}

\* The texts of the header cells.
ThHeaderRows ==
    {<<TxtDate \o <<" ">>, TxtGlobal>>, <<TxtGlobal, TxtDate>>, <<TxtPos, TxtGlobal>>,
     <<>>}

\* The texts of the date cells.
ThDateTexts ==
    {Txt20230105, <<"2", "0", "2", "3", "/", "1", "/", "5">>, Txt20230112,
     TxtTotal, TxtPeak, TxtLowerTotal, <<>>}

\* The cells of a row of the table under headers: date in the date
\* column, value in the others.
ThCells(headers, date, value) ==
    [i \in 1..Len(headers) |-> IF i = DateIdx(headers) THEN date ELSE value]

\* The rows a table under headers can hold.
ThRowsFor(headers) ==
    {TrackRow(ThCells(headers, d, Txt7), "no") : d \in ThDateTexts}
    \cup {TrackRow(ThCells(headers, Txt20230105, Txt1002), "no"),
          TrackRow(<<Txt20230112>>, "no"),
          TrackRow(ThCells(headers, Txt20230112, Txt7), "row"),
          TrackRow(ThCells(headers, Txt20230112, Txt7), "cell")}

ThInit ==
    /\ th_pc = "validate"
    /\ th_track_id \in ThTrackIds
    /\ th_track_info = UnknownInfo
    /\ th_headers = <<>>
    /\ th_rows_read = 0
    /\ th_data = InitData(<<>>)
    /\ th_sessions = 1
    /\ th_result = EmptyTrackFrame
    /\ th_nav = "none"
    /\ th_gets = 0
    /\ th_table = FALSE
    /\ PnIdle /\ RsIdle /\ KsIdle /\ RgIdle /\ SsIdle /\ UiIdle /\ DdIdle /\ ExIdle /\ CkIdle /\ PtIdle /\ CliIdle

\* "Validate track ID" to the url: the method returns an empty frame or
\* goes on to load the page of the cleaned id.
ThValidate ==
    /\ th_pc = "validate"
    /\ th_track_id' = TrackIdCheck(th_track_id).id
    /\ th_pc' = IF TrackIdCheck(th_track_id).ok THEN "load" ELSE "done"
    /\ UNCHANGED <<th_track_info, th_headers, th_rows_read, th_data,
                   th_sessions, th_result, th_nav, th_gets, th_table>>
    /\ UNCHANGED <<pnVars, rsVars, ksVars, rgVars, ssVars, uiVars, ddVars, exVars, ckVars, ptVars, cliVars>>

\* driver.get to the headers of the table: the early returns, the blocked
\* page with its new session, the table_locators loop.  exc is the
\* exception raised inside the try block, if any.
ThLoad ==
    /\ th_pc = "load"
    /\ \E nav \in ThNavs, info \in ThTrackInfos, chain \in ThChains,
          ths \in ThHeaderRows, reinit \in InitOutcomes("ui") :
          LET st == Resolve("find_element_safely", chain, ResolverStart)
              headers == [i \in 1..Len(ths) |-> Strip(ths[i])]
              table == nav = "ok" /\ st.pc = "returned" /\ st.elem # 0
              exc == IF nav \in {"WebDriverException", "OSError"} THEN nav
                     ELSE IF nav = "denied" /\ reinit # "ok" THEN "WebDriverException"
                     ELSE IF nav = "ok" /\ st.pc = "raised" THEN st.exc
                     ELSE "none"
          IN  /\ th_track_info' = IF nav = "WebDriverException" THEN th_track_info
                                   ELSE info
              /\ th_sessions' = IF nav = "denied" /\ reinit # "chrome"
                                 THEN th_sessions + 1 ELSE th_sessions
              /\ th_pc' = IF exc # "none" /\ ~TrackCatches(exc) THEN "raised"
                           ELSE IF table THEN "rows" ELSE "done"
              /\ th_headers' = IF table THEN headers ELSE th_headers
              /\ th_data' = IF table THEN InitData(headers) ELSE th_data
              /\ th_nav' = nav
              /\ th_table' = table
    /\ th_gets' = th_gets + 1
    /\ UNCHANGED <<th_track_id, th_rows_read, th_result>>
    /\ UNCHANGED <<pnVars, rsVars, ksVars, rgVars, ssVars, uiVars, ddVars, exVars, ckVars, ptVars, cliVars>>

\* One iteration of "for row in rows".
ThRow ==
    /\ th_pc = "rows"
    /\ th_rows_read < MaxRows
    /\ \E row \in ThRowsFor(th_headers) :
          th_data' = ProcessRow(th_headers, th_data, row)
    /\ th_rows_read' = th_rows_read + 1
    /\ UNCHANGED <<th_pc, th_track_id, th_track_info, th_headers, th_sessions,
                   th_result, th_nav, th_gets, th_table>>
    /\ UNCHANGED <<pnVars, rsVars, ksVars, rgVars, ssVars, uiVars, ddVars, exVars, ckVars, ptVars, cliVars>>

\* The rows are exhausted: the frame is built, processed and returned.
ThFrame ==
    /\ th_pc = "rows"
    /\ th_result' \in TrackOutcomes(th_data, th_track_info)
    /\ th_pc' = IF ~TrackFrame(th_data, th_track_info).ok /\ ~TrackCatches("ValueError")
                 THEN "raised" ELSE "done"
    /\ UNCHANGED <<th_track_id, th_track_info, th_headers, th_rows_read,
                   th_data, th_sessions, th_nav, th_gets, th_table>>
    /\ UNCHANGED <<pnVars, rsVars, ksVars, rgVars, ssVars, uiVars, ddVars, exVars, ckVars, ptVars, cliVars>>

ThNext == ThValidate \/ ThLoad \/ ThRow \/ ThFrame

SpecTrack == ThInit /\ [][ThNext]_vars

\* The date column of the returned frame and of the page, row by row.
ResultDate(i) == th_result.rows[i][TxtLowerDate].s

ResultCalendar(i) == StrpTime(ResultDate(i)).dt

IsDated(text) == StrpTime(text).ok

\* No two rows taken from the page carry the same calendar date.
PageDatesDistinct ==
    \A a, b \in 1..Len(th_data.date) :
        (a < b /\ IsDated(th_data.date[a]) /\ IsDated(th_data.date[b]))
            => StrpTime(th_data.date[a]).dt # StrpTime(th_data.date[b]).dt

\* C10, as stated: in the frame scrape_track_history returns, every row
\* whose date is 'Total' or 'Peak' precedes every dated row, and the dated
\* rows are strictly descending by calendar date.
C10_TotalPeakFirstStrictlyDescending ==
    th_pc = "done" =>
        \A i, j \in 1..Len(th_result.rows) :
            i < j =>
                /\ ~(IsDated(ResultDate(i)) /\ ResultDate(j) \in special_rows)
                /\ (IsDated(ResultDate(i)) /\ IsDated(ResultDate(j)))
                      => DtLess(ResultCalendar(j), ResultCalendar(i))

\* C10, amended: in the frame scrape_track_history returns, every row whose
\* date is 'Total' or 'Peak' precedes every other row, the rows whose date
\* is a YYYY/MM/DD calendar date never ascend by calendar date, and they
\* descend strictly when no two rows of the page carry the same date.
C10_TotalPeakFirstDescending ==
    th_pc = "done" =>
        \A i, j \in 1..Len(th_result.rows) :
            i < j =>
                /\ ResultDate(j) \in special_rows => ResultDate(i) \in special_rows
                /\ (IsDated(ResultDate(i)) /\ IsDated(ResultDate(j)))
                      => /\ ~DtLess(ResultCalendar(i), ResultCalendar(j))
                         /\ PageDatesDistinct
                               => DtLess(ResultCalendar(j), ResultCalendar(i))

\* A returned frame of three rows or more whose page had a dated row above
\* a 'Total' or 'Peak' row and two dated rows in ascending order.
C10_Witness ==
    /\ th_pc = "done"
    /\ Len(th_result.rows) >= 3
    /\ Len(th_result.rows) = Len(th_data.date)
    /\ ResultDate(1) \in special_rows
    /\ \E a, b \in 1..Len(th_data.date) :
          a < b /\ IsDated(th_data.date[a]) /\ th_data.date[b] \in special_rows
    /\ \E a, b \in 1..Len(th_data.date) :
          /\ a < b /\ IsDated(th_data.date[a]) /\ IsDated(th_data.date[b])
          /\ DtLess(StrpTime(th_data.date[a]).dt, StrpTime(th_data.date[b]).dt)

\* C16: when the loaded page indicates access denial, the session is
\* re-initialized and the page is requested again with the new session
\* before the call ends.
C16_BlockedPageIsRetried ==
    (th_pc = "done" /\ th_nav = "denied") => th_gets >= 2

\* C28: after every processed row, accepted, skipped or abandoned part-way,
\* the date list and the list of every header column have the same length.
C28_ColumnListsAligned ==
    \A k \in DOMAIN th_data.lists : Len(th_data.lists[k]) = Len(th_data.date)

\* C24: a table that has no header cells gives no rows: the call ends with
\* an empty result, never with a frame built from the rows of that table.
C24_NoHeadersNoRows ==
    (th_pc = "done" /\ th_table /\ th_headers = <<>>) => th_result.rows = <<>>

----------------------------------------------------------------------------
(* Specification SpecSession: the browser sessions of one scraper from its *)
(* construction to the end of the run that owns it.  The owner is "with"   *)
(* (KworbScraper in the with statement of kworb_scraper.main), "cli"       *)
(* (ChartScraper as a local of run_cli) or "ui" (ChartScraper kept in      *)
(* st.session_state by the Streamlit script).                              *)

\* The largest number of scraping calls in a run.
MaxSteps == 4

SsInit ==
    /\ ss_owner \in {"with", "cli", "ui"}
    /\ ss_pc = "construct"
    /\ ss_scraper = NoScraper
    /\ ss_steps = 0
    /\ ss_exit = "none"
    /\ PnIdle /\ RsIdle /\ KsIdle /\ RgIdle /\ ThIdle /\ UiIdle /\ DdIdle /\ ExIdle /\ CkIdle /\ PtIdle /\ CliIdle

\* The constructor of the scraper.  An exception of it ends the run: the
\* with block is not entered, run_cli goes to sys.exit(1), the script to
\* its except clause.
SsConstruct ==
    /\ ss_pc = "construct"
    /\ \E outcome \in InitOutcomes(ss_owner) :
          /\ ss_scraper' = InitSelenium(ss_scraper, outcome)
          /\ ss_pc' = IF outcome = "ok" THEN "body" ELSE "unwind"
          /\ ss_exit' = IF outcome = "ok" THEN "none"
                        ELSE IF ss_owner = "cli" THEN "exit1" ELSE "exception"
    /\ UNCHANGED <<ss_owner, ss_steps>>
    /\ UNCHANGED <<pnVars, rsVars, ksVars, rgVars, thVars, uiVars, ddVars, exVars, ckVars, ptVars, cliVars>>

\* One scraping call of the run: extract_streams, discover_available_weeks
\* or scrape_date_range, which leave the session alone, or
\* scrape_track_history, which starts a new one on a blocked page.
SsScrape ==
    /\ ss_pc = "body"
    /\ ss_steps < MaxSteps
    /\ \E blocked \in (IF ss_owner = "ui" THEN BOOLEAN ELSE {FALSE}),
          outcome \in InitOutcomes("ui") :
          ss_scraper' = IF blocked THEN BlockedPage(ss_scraper, outcome)
                        ELSE ss_scraper
    /\ ss_steps' = ss_steps + 1
    /\ UNCHANGED <<ss_owner, ss_pc, ss_exit>>
    /\ UNCHANGED <<pnVars, rsVars, ksVars, rgVars, thVars, uiVars, ddVars, exVars, ckVars, ptVars, cliVars>>

\* The body of the run ends: it completes, or an exception leaves it
\* (sys.exit(1) in run_cli).
SsBodyEnds ==
    /\ ss_pc = "body"
    /\ ss_pc' = "unwind"
    /\ ss_exit' \in {"normal", IF ss_owner = "cli" THEN "exit1" ELSE "exception"}
    /\ UNCHANGED <<ss_owner, ss_scraper, ss_steps>>
    /\ UNCHANGED <<pnVars, rsVars, ksVars, rgVars, thVars, uiVars, ddVars, exVars, ckVars, ptVars, cliVars>>

\* The run is left.  "with": __exit__ runs if the block was entered.
\* "cli": the last reference to the scraper goes with the frame of run_cli
\* and __del__ runs.  "ui": a scraper whose constructor raised is not
\* stored and __del__ runs; a stored one stays in st.session_state, where
\* __del__ runs when the state is discarded, and is not run for an object
\* that still exists when the interpreter exits.
SsRelease ==
    /\ ss_pc = "unwind"
    /\ \E finalized \in (IF ss_owner = "ui" /\ ~ss_scraper.raised
                          THEN BOOLEAN ELSE {TRUE}) :
          ss_scraper' = IF finalized THEN QuitDriver(ss_scraper) ELSE ss_scraper
    /\ ss_pc' = "exited"
    /\ UNCHANGED <<ss_owner, ss_steps, ss_exit>>
    /\ UNCHANGED <<pnVars, rsVars, ksVars, rgVars, thVars, uiVars, ddVars, exVars, ckVars, ptVars, cliVars>>

SsNext == SsConstruct \/ SsScrape \/ SsBodyEnds \/ SsRelease

SpecSession == SsInit /\ [][SsNext]_vars

\* C11: on every exit path of a run (normal completion, a raised
\* exception, the exit with status 1) every browser session the run
\* started has been quit.
C11_SessionsReleasedOnExit ==
    ss_pc = "exited" => ss_scraper.live = {}

\* C12: a scraper has at most one live browser session at any time.
C12_AtMostOneLiveSession ==
    Cardinality(ss_scraper.live) <= 1

----------------------------------------------------------------------------
(* Specification SpecSinglePage: one call of either single-page operation, *)
(* scrape_track_history or extract_streams.                                *)

SpecSinglePage == (ThInit \/ KsInit) /\ [][ThNext \/ KsNext]_vars

\* C13: no exception escapes scrape_track_history or extract_streams; an
\* invalid identifier, a navigation error, a missing or blocked page, a
\* failed re-initialization, a locator miss and an extraction error all end
\* in the returned failure value, the empty table or None.
C13_FailuresAreReturned ==
    /\ th_pc # "raised"
    /\ ks_pc # "raised"
    /\ (th_pc = "done" /\ (th_gets = 0 \/ th_nav # "ok" \/ ~th_table))
          => th_result = EmptyTrackFrame
    /\ (th_pc = "done" /\ ~TrackFrame(th_data, th_track_info).ok)
          => th_result = EmptyTrackFrame
    /\ (ks_pc = "returned" /\ \A n \in 1..Len(ks_history) : ~ks_history[n].ok)
          => ks_result = NoResult

\* A blocked page whose re-initialization started no browser: the call has
\* returned the empty table.
C13_Witness ==
    /\ th_pc = "done"
    /\ th_nav = "denied"
    /\ th_gets = 1
    /\ th_sessions = 1
    /\ th_result = EmptyTrackFrame

\* C25: an attempt of extract_streams on a table with its headers and no
\* surviving data row is a failed attempt: the loop goes on while attempts
\* remain and the call returns None after the last one; rows are returned
\* only when there is at least one, and scrape_track_history, which makes a
\* single attempt, returns a frame without rows.
C25_EmptyTableIsRetried ==
    /\ \A n \in 1..Len(ks_history) :
          ks_history[n].msg = "No valid data rows found" =>
              /\ ~ks_history[n].ok
              /\ n < ks_retry_count => (ks_pc = "loop" \/ Len(ks_history) > n)
              /\ n = ks_retry_count => (ks_pc = "returned" /\ ks_result = NoResult)
    /\ ks_result.kind = "rows" => ks_result.data # <<>>
    /\ (th_pc = "done" /\ th_table /\ th_data.date = <<>>) => th_result.rows = <<>>

\* A first attempt on a table without a surviving row, then an attempt that
\* returns rows.
C25_Witness ==
    /\ ks_pc = "returned"
    /\ Len(ks_history) = 2
    /\ ks_history[1].msg = "No valid data rows found"
    /\ ks_history[2].ok
    /\ ks_result.kind = "rows"

----------------------------------------------------------------------------
(* Specification SpecUi: one run of the Streamlit script, main() of        *)
(* ui/streamlit_app.py, from the sidebar to the display of the track.  The *)
(* call of scrape_track_history it makes is the one of SpecTrack.          *)

\* The texts typed into the search bar: nothing, a Spotify URL, and two
\* texts that hold no id, one bare and one a Spotify URI.
UiTrackUrls ==
    {<<>>,
     <<"o", "p", "e", "n", ".", "s", "p", "o", "t", "i", "f", "y", ".", "c",
       "o", "m", "/", "t", "r", "a", "c", "k", "/", "a", "1", "B", "?", "s",
       "i", "=", "2">>,
     <<"a", " ", "1">>,
     <<"s", "p", "o", "t", "i", "f", "y", ":", "t", "r", "a", "c", "k", ":",
       "a", "/", "1">>}

UiInit ==
    /\ ui_pc = "start"
    /\ ui_api_key \in {"none", "key"}
    /\ ui_track_url = <<>>
    /\ ui_track_id = <<>>
    /\ ui_insight = "none"
    /\ ui_shown = {}
    /\ PnIdle /\ RsIdle /\ KsIdle /\ RgIdle /\ ThIdle /\ SsIdle /\ DdIdle /\ ExIdle /\ CkIdle /\ PtIdle /\ CliIdle

\* The sidebar and "Initialize components": without a key the script
\* returns after its warning; with one it builds the AIHelper and the
\* ChartScraper, and an exception of the browser start goes to the outer
\* except.
UiStart ==
    /\ ui_pc = "start"
    /\ IF ui_api_key = "none"
       THEN /\ ui_shown' = ui_shown \cup {"warning"}
            /\ ui_pc' = "returned"
       ELSE \E outcome \in InitOutcomes("ui") :
               IF outcome = "ok"
               THEN /\ ui_shown' = ui_shown \cup {"search"}
                    /\ ui_pc' = "search"
               ELSE /\ ui_shown' = ui_shown \cup {"error"}
                    /\ ui_pc' = "returned"
    /\ UNCHANGED <<ui_api_key, ui_track_url, ui_track_id, ui_insight>>
    /\ UNCHANGED <<pnVars, rsVars, ksVars, rgVars, thVars, ssVars, ddVars, exVars, ckVars, ptVars, cliVars>>

\* The search bar: "if track_url", extract_track_id, "if not track_id:
\* return", and the call of scraper.scrape_track_history(track_id).
UiSearch ==
    /\ ui_pc = "search"
    /\ \E url \in UiTrackUrls :
          /\ ui_track_url' = url
          /\ ui_track_id' = ExtractTrackId(url)
          /\ IF url = <<>>
             THEN /\ ui_pc' = "returned"
                  /\ UNCHANGED <<ui_shown, th_pc, th_track_id>>
             ELSE IF ExtractTrackId(url) = <<>>
             THEN /\ ui_pc' = "returned"
                  /\ ui_shown' = ui_shown \cup {"invalid"}
                  /\ UNCHANGED <<th_pc, th_track_id>>
             ELSE /\ ui_pc' = "scraping"
                  /\ th_pc' = "validate"
                  /\ th_track_id' = ExtractTrackId(url)
                  /\ UNCHANGED ui_shown
    /\ UNCHANGED <<ui_api_key, ui_insight>>
    /\ UNCHANGED <<th_track_info, th_headers, th_rows_read, th_data,
                   th_sessions, th_result, th_nav, th_gets, th_table>>
    /\ UNCHANGED <<pnVars, rsVars, ksVars, rgVars, ssVars, ddVars, exVars, ckVars, ptVars, cliVars>>

\* The display of the frame scrape_track_history returned.  The metrics
\* (only for a frame with a Total row), the chart and the table format the
\* cells of the frame and raise for some frames; which ones is not
\* modelled, every non-empty frame has both outcomes.  An exception goes to
\* "except Exception as e: st.error(...)"; analyze_track_data returns its
\* insights or, after an exception of its own, its error text.
UiShow ==
    /\ ui_pc = "scraping"
    /\ th_pc \in {"done", "raised"}
    /\ IF th_pc = "raised"
       THEN /\ ui_shown' = ui_shown \cup {"error"}
            /\ UNCHANGED ui_insight
       ELSE IF th_result.rows = <<>> \/ th_result.cols = <<>>
       THEN /\ ui_shown' = ui_shown \cup {"no_data"}
            /\ UNCHANGED ui_insight
       ELSE \E display \in
                 (IF \E j \in 1..Len(th_result.rows) :
                          th_result.rows[j][TxtLowerDate] = StrVal(TxtTotal)
                  THEN {"ok", "metrics", "chart"} ELSE {"ok", "chart"}),
               insight \in {"text", "error_text"} :
               /\ ui_insight' = IF display = "metrics" THEN ui_insight ELSE insight
               /\ ui_shown' =
                     ui_shown \cup
                        (IF display = "metrics" THEN {"track", "error"}
                         ELSE IF display = "chart" THEN {"track", "insight", "error"}
                         ELSE {"track", "insight", "chart", "table"})
    /\ ui_pc' = "returned"
    /\ UNCHANGED <<ui_api_key, ui_track_url, ui_track_id>>
    /\ UNCHANGED <<pnVars, rsVars, ksVars, rgVars, thVars, ssVars, ddVars, exVars, ckVars, ptVars, cliVars>>

UiNext == UiStart \/ UiSearch \/ UiShow

SpecUi == UiInit /\ [][UiNext \/ ThNext]_vars

\* C18: a run of the script without an API key still reaches the track
\* search, and a run whose insight call failed still shows the table of
\* the track it scraped.
C18_InsightIsOptional ==
    /\ (ui_pc = "returned" /\ ui_api_key = "none") => "search" \in ui_shown
    /\ (ui_pc = "returned" /\ ui_insight = "error_text" /\ "chart" \in ui_shown)
          => "table" \in ui_shown

----------------------------------------------------------------------------
(* Specification SpecTrackId: the two places a track identifier is         *)
(* checked, scrape_track_history called with any text and the script       *)
(* that calls extract_track_id on the text of its search bar first.        *)

SpecTrackId == (ThInit \/ UiInit) /\ [][ThNext \/ UiNext]_vars

\* A non-empty token of letters, digits and hyphens.
Acceptable(token) ==
    /\ token # <<>>
    /\ \A i \in 1..Len(token) :
          token[i] \in Digits \cup SeqToSet(UpperCase) \cup SeqToSet(LowerCase) \cup {"-"}

\* C19: a page is requested only for a normalised token that is non-empty
\* and made of alphanumerics and hyphens; for any other input
\* scrape_track_history returns the empty table with no page requested, and
\* extract_track_id returns the empty string, so that the script starts no
\* call.
C19_OnlyAcceptableTokensNavigate ==
    /\ th_gets > 0 => Acceptable(th_track_id)
    /\ (th_pc \notin {"idle", "validate"} /\ ~Acceptable(th_track_id))
          => th_pc = "done" /\ th_gets = 0 /\ th_result = EmptyTrackFrame
    /\ (ui_pc \in {"scraping", "returned"} /\ ~Acceptable(UrlToken(ui_track_url)))
          => ui_track_id = <<>> /\ th_pc = "idle"
    /\ ui_track_id # <<>> => Acceptable(ui_track_id)

\* scrape_track_history has returned for the text "a 1".
C19_Witness ==
    /\ th_pc = "done"
    /\ th_track_id = <<"a", " ", "1">>
    /\ th_gets = 0
    /\ th_result = EmptyTrackFrame
    /\ ui_pc = "idle"

----------------------------------------------------------------------------
(* Specification SpecDedup: DataCleaner.deduplicate applied to a table and *)
(* then to the table it returned.  A table is [cols: the set of its column *)
(* names, rows: a sequence of records over these columns].                 *)

\* The largest number of rows of an input table.
MaxTable == 3

\* subset=['chart_date', 'rank', 'song_title', 'artist']
DedupSubset == {"chart_date", "rank", "song_title", "artist"}

\* The rows of the input tables: two dates, two ranks, two titles, one
\* artist, and two stream counts that tell rows of one key apart; the
\* second rank and the second title come with the first date only.
DdRows ==
    {r \in [chart_date : {Txt20230105, Txt20230112}, rank : {1, 2},
            song_title : {<<"S">>, <<"T">>}, artist : {<<"A">>},
            streams : {7, 1002}] :
        (r.rank = 2 \/ r.song_title = <<"T">>) =>
            /\ r.chart_date = Txt20230105
            /\ r.streams = 7
            /\ ~(r.rank = 2 /\ r.song_title = <<"T">>)}

RECURSIVE DdRowLists(_)
DdRowLists(n) ==
    IF n = 0 THEN {<<>>}
    ELSE {Append(l, r) : l \in DdRowLists(n - 1), r \in DdRows}

\* The input tables, and the table of test_error_handling that has none of
\* the columns.
DdTables ==
    {[cols |-> DedupSubset \cup {"streams"}, rows |-> l] :
        l \in UNION {DdRowLists(n) : n \in 0..MaxTable}}
    \cup {[cols |-> {"invalid_column"}, rows |-> <<[invalid_column |-> 1]>>]}

\* The order of sort_values(['chart_date', 'rank']) on two rows
SortKeyLess(a, b) ==
    \/ StrLess(a.chart_date, b.chart_date)
    \/ a.chart_date = b.chart_date /\ a.rank < b.rank

\* df.sort_values(['chart_date', 'rank']): the sort on several columns is
\* stable, rows of one (chart_date, rank) keep their order.
RECURSIVE SortValues(_)
SortValues(rows) ==
    IF rows = <<>> THEN <<>>
    ELSE LET x == rows[Len(rows)]
             front == SortValues(SubSeq(rows, 1, Len(rows) - 1))
             k == Cardinality({i \in 1..Len(front) : ~SortKeyLess(x, front[i])})
         IN  SubSeq(front, 1, k) \o <<x>> \o SubSeq(front, k + 1, Len(front))

\* The values of a row in the columns of subset
SubsetKey(row) == [c \in DedupSubset |-> row[c]]

\* A drop_duplicates that drops nothing.
DropDuplicatesKeepAll(rows) == rows

\* drop_duplicates(subset=..., keep='last')
DropDuplicates(rows) ==
    LET keep == {i \in 1..Len(rows) :
                    \A j \in (i + 1)..Len(rows) : SubsetKey(rows[j]) # SubsetKey(rows[i])}
        RECURSIVE Kept(_)
        Kept(i) == IF i > Len(rows) THEN <<>>
                   ELSE (IF i \in keep THEN <<rows[i]>> ELSE <<>>) \o Kept(i + 1)
    IN  Kept(1)

\* DataCleaner.deduplicate: the returned table, or the DataCleaningError
\* raised for the KeyError of a missing column.
Deduplicate(df) ==
    IF ~({"chart_date", "rank"} \subseteq df.cols) \/ ~(DedupSubset \subseteq df.cols)
    THEN [kind |-> "DataCleaningError", df |-> [cols |-> {}, rows |-> <<>>]]
    ELSE [kind |-> "table",
          df |-> [cols |-> df.cols, rows |-> DropDuplicates(SortValues(df.rows))]]

DdInit ==
    /\ dd_pc = "start"
    /\ dd_df \in DdTables
    /\ dd_result = DdNone
    /\ dd_again = DdNone
    /\ PnIdle /\ RsIdle /\ KsIdle /\ RgIdle /\ ThIdle /\ SsIdle /\ UiIdle /\ ExIdle /\ CkIdle /\ PtIdle /\ CliIdle

\* deduped = cleaner.deduplicate(df)
DdDeduplicate ==
    /\ dd_pc = "start"
    /\ dd_result' = Deduplicate(dd_df)
    /\ dd_pc' = IF Deduplicate(dd_df).kind = "table" THEN "once" ELSE "raised"
    /\ UNCHANGED <<dd_df, dd_again>>
    /\ UNCHANGED <<pnVars, rsVars, ksVars, rgVars, thVars, ssVars, uiVars, exVars, ckVars, ptVars, cliVars>>

\* cleaner.deduplicate(deduped)
DdAgain ==
    /\ dd_pc = "once"
    /\ dd_again' = Deduplicate(dd_result.df)
    /\ dd_pc' = "twice"
    /\ UNCHANGED <<dd_df, dd_result>>
    /\ UNCHANGED <<pnVars, rsVars, ksVars, rgVars, thVars, ssVars, uiVars, exVars, ckVars, ptVars, cliVars>>

DdNext == DdDeduplicate \/ DdAgain

SpecDedup == DdInit /\ [][DdNext]_vars

----------------------------------------------------------------------------
(* Specification SpecExport: one call of DataCleaner.export_final(df,       *)
(* output_file, formats), one step per format of the list.                 *)

\* The largest number of formats in the list.
MaxFormats == 2

\* The format names of the callers: two the method writes, one the method
\* hands to an Excel writer, the name of test_error_handling and the empty
\* name.
ExFormatNames ==
    {<<"c", "s", "v">>, <<"J", "S", "O", "N">>, <<"e", "x", "c", "e", "l">>,
     <<"i", "n", "v", "a", "l", "i", "d", "_", "f", "o", "r", "m", "a", "t">>,
     <<>>}

RECURSIVE ExFormatLists(_)
ExFormatLists(n) ==
    IF n = 0 THEN {<<>>}
    ELSE {Append(l, f) : l \in ExFormatLists(n - 1), f \in ExFormatNames}

\* The names with a branch of their own in export_final
SupportedFormats ==
    {<<"c", "s", "v">>, <<"e", "x", "c", "e", "l">>, <<"j", "s", "o", "n">>,
     <<"p", "a", "r", "q", "u", "e", "t">>}

\* formats = formats or ['csv']
FormatsOrDefault(formats) == IF formats = <<>> THEN <<<<"c", "s", "v">>>> ELSE formats

\* The body of "for fmt in formats" for one name: the file is written, the
\* name is skipped with a warning, or an exception is raised.  dir says
\* that the directory of output_file exists, engine that the writer of the
\* format can be loaded; with_suffix(".") raises ValueError.
ExportFormat(fmt, dir, engine) ==
    IF Lower(fmt) = <<>> THEN "ValueError"
    ELSE IF Lower(fmt) \notin SupportedFormats THEN "skipped"
    ELSE IF Lower(fmt) \in {<<"e", "x", "c", "e", "l">>, <<"p", "a", "r", "q", "u", "e", "t">>}
            /\ ~engine
    THEN "ImportError"
    ELSE IF ~dir THEN "OSError"
    ELSE "written"

ExInit ==
    /\ ex_pc = "loop"
    /\ ex_formats \in {FormatsOrDefault(l) :
                          l \in UNION {ExFormatLists(n) : n \in 0..MaxFormats}}
    /\ ex_i = 1
    /\ ex_dir \in BOOLEAN
    /\ ex_engine \in BOOLEAN
    /\ ex_files = <<>>
    /\ ex_result = "none"
    /\ PnIdle /\ RsIdle /\ KsIdle /\ RgIdle /\ ThIdle /\ SsIdle /\ UiIdle /\ DdIdle /\ CkIdle /\ PtIdle /\ CliIdle

\* One iteration of "for fmt in formats"; an exception goes to the except
\* clause, which raises DataCleaningError.
ExFormat ==
    /\ ex_pc = "loop"
    /\ ex_i <= Len(ex_formats)
    /\ LET out == ExportFormat(ex_formats[ex_i], ex_dir, ex_engine)
       IN  /\ ex_files' = IF out = "written"
                           THEN Append(ex_files, Lower(ex_formats[ex_i])) ELSE ex_files
           /\ ex_pc' = IF out \in {"written", "skipped"} THEN "loop" ELSE "raised"
           /\ ex_result' = IF out \in {"written", "skipped"} THEN ex_result
                            ELSE "DataCleaningError"
    /\ ex_i' = ex_i + 1
    /\ UNCHANGED <<ex_formats, ex_dir, ex_engine>>
    /\ UNCHANGED <<pnVars, rsVars, ksVars, rgVars, thVars, ssVars, uiVars, ddVars, ckVars, ptVars, cliVars>>

\* The list is exhausted: the method returns None.
ExReturn ==
    /\ ex_pc = "loop"
    /\ ex_i > Len(ex_formats)
    /\ ex_pc' = "returned"
    /\ ex_result' = "None"
    /\ UNCHANGED <<ex_formats, ex_i, ex_dir, ex_engine, ex_files>>
    /\ UNCHANGED <<pnVars, rsVars, ksVars, rgVars, thVars, ssVars, uiVars, ddVars, ckVars, ptVars, cliVars>>

ExNext == ExFormat \/ ExReturn

SpecExport == ExInit /\ [][ExNext]_vars

\* C22: a call whose format list holds a name the method does not support
\* does not return; it ends in an error.
C22_UnsupportedFormatRaises ==
    ex_pc = "returned" =>
        \A i \in 1..Len(ex_formats) : Lower(ex_formats[i]) \in SupportedFormats

----------------------------------------------------------------------------
(* Specification SpecClick: one call of KworbScraper.safe_click(element,   *)
(* retries), one step per iteration of its loop.                           *)

\* The largest value of retries.
MaxClicks == 3

\* What the browser answers to the scroll script, to element.click() and to
\* the click script of one attempt.
ClickAnswers ==
    [scroll : {"ok", "WebDriverException"},
     direct : {"ok", "ElementClickInterceptedException", "StaleElementReferenceException"},
     script : {"ok", "WebDriverException"}]

\* The try block of one attempt: what was called with which answer
\* ("skipped" for a call not made) and whether the attempt returned True.
ClickAttempt(ans) ==
    IF ans.scroll # "ok"
    THEN [scroll |-> ans.scroll, direct |-> "skipped", script |-> "skipped", ok |-> FALSE]
    ELSE IF ans.direct = "ok"
    THEN [scroll |-> "ok", direct |-> "ok", script |-> "skipped", ok |-> TRUE]
    ELSE [scroll |-> "ok", direct |-> ans.direct, script |-> ans.script,
          ok |-> ans.script = "ok"]

\* An end of an attempt that gives up at the first failure.
AfterClickGiveUp(attempt, retries, ok) ==
    IF ok THEN [pc |-> "returned", result |-> "True"]
    ELSE [pc |-> "returned", result |-> "False"]

\* The end of an attempt: "return True", or the except clause with its
\* "if attempt == retries - 1: return False".  attempt counts from 0.
AfterClick(attempt, retries, ok) ==
    IF ok THEN [pc |-> "returned", result |-> "True"]
    ELSE IF attempt = retries - 1 THEN [pc |-> "returned", result |-> "False"]
    ELSE [pc |-> "loop", result |-> "none"]

CkInit ==
    /\ ck_pc = "start"
    /\ ck_element \in BOOLEAN
    /\ ck_retries \in 0..MaxClicks
    /\ ck_attempt = 0
    /\ ck_log = <<>>
    /\ ck_result = "none"
    /\ PnIdle /\ RsIdle /\ KsIdle /\ RgIdle /\ ThIdle /\ SsIdle /\ UiIdle /\ DdIdle /\ ExIdle /\ PtIdle /\ CliIdle

\* "if not element: return False"
CkCheck ==
    /\ ck_pc = "start"
    /\ ck_pc' = IF ck_element THEN "loop" ELSE "returned"
    /\ ck_result' = IF ck_element THEN ck_result ELSE "False"
    /\ UNCHANGED <<ck_element, ck_retries, ck_attempt, ck_log>>
    /\ UNCHANGED <<pnVars, rsVars, ksVars, rgVars, thVars, ssVars, uiVars, ddVars, exVars, ptVars, cliVars>>

\* One iteration of "for attempt in range(retries)"
CkAttempt ==
    /\ ck_pc = "loop"
    /\ ck_attempt < ck_retries
    /\ \E ans \in ClickAnswers :
          /\ ck_log' = Append(ck_log, ClickAttempt(ans))
          /\ ck_pc' = AfterClick(ck_attempt, ck_retries, ClickAttempt(ans).ok).pc
          /\ ck_result' = AfterClick(ck_attempt, ck_retries, ClickAttempt(ans).ok).result
    /\ ck_attempt' = ck_attempt + 1
    /\ UNCHANGED <<ck_element, ck_retries>>
    /\ UNCHANGED <<pnVars, rsVars, ksVars, rgVars, thVars, ssVars, uiVars, ddVars, exVars, ptVars, cliVars>>

\* The "return False" after the loop
CkLoopEnd ==
    /\ ck_pc = "loop"
    /\ ck_attempt >= ck_retries
    /\ ck_pc' = "returned"
    /\ ck_result' = "False"
    /\ UNCHANGED <<ck_element, ck_retries, ck_attempt, ck_log>>
    /\ UNCHANGED <<pnVars, rsVars, ksVars, rgVars, thVars, ssVars, uiVars, ddVars, exVars, ptVars, cliVars>>

CkNext == CkCheck \/ CkAttempt \/ CkLoopEnd

SpecClick == CkInit /\ [][CkNext]_vars

\* C27: in every attempt the direct click is tried before the script click
\* and the script click is tried only after the direct click raised; the
\* call returns True at the first attempt in which a click succeeds, False
\* after exactly retries failed attempts, False with no attempt for a
\* missing element, and does not raise.
C27_SafeClick ==
    /\ ck_pc \in {"idle", "start", "loop", "returned"}
    /\ Len(ck_log) <= ck_retries
    /\ \A n \in 1..Len(ck_log) :
          /\ ck_log[n].script # "skipped" <=> ck_log[n].direct \notin {"ok", "skipped"}
          /\ ck_log[n].ok <=> (ck_log[n].direct = "ok" \/ ck_log[n].script = "ok")
          /\ ck_log[n].ok =>
                /\ ck_pc = "returned" /\ ck_result = "True"
                /\ Len(ck_log) = n
    /\ (ck_pc = "returned" /\ ~ck_element) => ck_result = "False" /\ ck_log = <<>>
    /\ (ck_pc = "returned" /\ ck_element /\ \A n \in 1..Len(ck_log) : ~ck_log[n].ok)
          => ck_result = "False" /\ Len(ck_log) = ck_retries
    /\ ck_result = "True" => ck_log # <<>> /\ ck_log[Len(ck_log)].ok

\* Three attempts: the scroll raises, both clicks raise, then the direct
\* click raises and the script click succeeds.
C27_Witness ==
    /\ ck_pc = "returned"
    /\ ck_result = "True"
    /\ ck_retries = 3
    /\ Len(ck_log) = 3
    /\ ck_log[1].scroll # "ok"
    /\ ck_log[2].direct \notin {"ok", "skipped"} /\ ck_log[2].script # "ok"
    /\ ck_log[3].direct \notin {"ok", "skipped"} /\ ck_log[3].script = "ok"

----------------------------------------------------------------------------
(* Specification SpecProcess: one call of KworbScraper.process_tracks, one *)
(* step per track; the call of extract_streams for the track is part of    *)
(* the step and meets one page per attempt.                                *)

\* The largest number of tracks in the input list.
MaxTracks == 3

\* TrackData(track_id, name, url)
PtTrackData == {[track_id |-> "t1", name |-> "Song A"], [track_id |-> "t2", name |-> "Song B"]}

RECURSIVE TrackListsOfLen(_)
TrackListsOfLen(n) ==
    IF n = 0 THEN {<<>>}
    ELSE {<<t>> \o l : t \in PtTrackData, l \in TrackListsOfLen(n - 1)}

PtTrackLists == UNION {TrackListsOfLen(n) : n \in 0..MaxTracks}

\* The pages an attempt of a track can meet: a failed navigation, a table
\* with one row and a table with two rows.
PtPages ==
    {page \in KsPages :
        /\ page.link = AllTimeout(5)
        /\ page.click = "clicked"
        /\ page.table = [i \in 1..3 |-> "found"]
        /\ \/ /\ page.nav = "ok"
              /\ Len(page.rows) \in {2, 4}
              /\ page.rows[1].th = <<TxtDate, TxtGlobal>>
           \/ page.nav # "ok" /\ page.rows = <<>>}

RECURSIVE PageListsOfLen(_)
PageListsOfLen(n) ==
    IF n = 0 THEN {<<>>}
    ELSE {<<page>> \o l : page \in PtPages, l \in PageListsOfLen(n - 1)}

\* extract_streams from the iteration attempt on; pages[attempt + 1] is the
\* page of that iteration.
RECURSIVE ExtractStreamsFrom(_, _, _)
ExtractStreamsFrom(attempt, retry_count, pages) ==
    IF attempt >= retry_count
    THEN [pc |-> "returned", result |-> NoResult, error |-> "none"]
    ELSE LET nxt == AfterAttempt(attempt, retry_count, "none",
                                 AttemptOutcome(pages[attempt + 1]))
         IN  IF nxt.pc = "loop"
             THEN ExtractStreamsFrom(attempt + 1, retry_count, pages)
             ELSE nxt

\* self.extract_streams(track)
ExtractStreams(retry_count, pages) == ExtractStreamsFrom(0, retry_count, pages)

\* The dictionaries extract_streams returns for a track, as written by
\* writer.writerow.
WriteRows(track, data) ==
    [j \in 1..Len(data) |->
        [track_id |-> track.track_id, track_name |-> track.name,
         date |-> data[j].date, streams |-> data[j].streams]]

\* A loop body that does not count a failed track.
TrackTallyDropsFailed(successful, failed, rows, track, data) ==
    IF data.kind = "rows" /\ data.data # <<>>
    THEN [successful |-> successful + 1, failed |-> failed,
          rows |-> rows \o WriteRows(track, data.data)]
    ELSE [successful |-> successful, failed |-> failed, rows |-> rows]

\* "if data: ... successful += 1 / else: failed += 1"
TrackTally(successful, failed, rows, track, data) ==
    IF data.kind = "rows" /\ data.data # <<>>
    THEN [successful |-> successful + 1, failed |-> failed,
          rows |-> rows \o WriteRows(track, data.data)]
    ELSE [successful |-> successful, failed |-> failed + 1, rows |-> rows]

PtInit ==
    /\ pt_pc = "start"
    /\ pt_retry_count \in 0..MaxRetry
    /\ pt_tracks \in PtTrackLists
    /\ pt_i = 0
    /\ pt_successful = 0
    /\ pt_failed = 0
    /\ pt_file = NoFile
    /\ pt_log = <<>>
    /\ PnIdle /\ RsIdle /\ KsIdle /\ RgIdle /\ ThIdle /\ SsIdle /\ UiIdle /\ DdIdle /\ ExIdle /\ CkIdle /\ CliIdle

\* open(output_file, 'w') and writer.writeheader()
PtOpen ==
    /\ pt_pc = "start"
    /\ pt_pc' = "loop"
    /\ pt_file' = [header |-> TRUE, rows |-> <<>>]
    /\ UNCHANGED <<pt_retry_count, pt_tracks, pt_i, pt_successful, pt_failed, pt_log>>
    /\ UNCHANGED <<pnVars, rsVars, ksVars, rgVars, thVars, ssVars, uiVars, ddVars, exVars, ckVars, cliVars>>

\* One iteration of "for track in tracks"
PtTrack ==
    /\ pt_pc = "loop"
    /\ pt_i < Len(pt_tracks)
    /\ \E pages \in PageListsOfLen(pt_retry_count) :
          LET track == pt_tracks[pt_i + 1]
              call == ExtractStreams(pt_retry_count, pages)
              tally == TrackTally(pt_successful, pt_failed, pt_file.rows, track,
                                  call.result)
          IN  IF call.pc = "raised"
              THEN /\ pt_pc' = "raised"
                   /\ UNCHANGED <<pt_successful, pt_failed, pt_file>>
                   /\ pt_log' = Append(pt_log, [index |-> pt_i + 1, data |-> NoResult])
              ELSE /\ pt_pc' = "loop"
                   /\ pt_successful' = tally.successful
                   /\ pt_failed' = tally.failed
                   /\ pt_file' = [pt_file EXCEPT !.rows = tally.rows]
                   /\ pt_log' = Append(pt_log, [index |-> pt_i + 1, data |-> call.result])
    /\ pt_i' = pt_i + 1
    /\ UNCHANGED <<pt_retry_count, pt_tracks>>
    /\ UNCHANGED <<pnVars, rsVars, ksVars, rgVars, thVars, ssVars, uiVars, ddVars, exVars, ckVars, cliVars>>

\* "return successful, failed"
PtReturn ==
    /\ pt_pc = "loop"
    /\ pt_i >= Len(pt_tracks)
    /\ pt_pc' = "returned"
    /\ UNCHANGED <<pt_retry_count, pt_tracks, pt_i, pt_successful, pt_failed,
                   pt_file, pt_log>>
    /\ UNCHANGED <<pnVars, rsVars, ksVars, rgVars, thVars, ssVars, uiVars, ddVars, exVars, ckVars, cliVars>>

PtNext == PtOpen \/ PtTrack \/ PtReturn

SpecProcess == PtInit /\ [][PtNext]_vars

\* The rows of the tracks of the log that returned data, in log order.
RECURSIVE LoggedRows(_)
LoggedRows(n) ==
    IF n = 0 THEN <<>>
    ELSE LoggedRows(n - 1)
         \o (IF pt_log[n].data.kind = "rows"
             THEN WriteRows(pt_tracks[pt_log[n].index], pt_log[n].data.data)
             ELSE <<>>)

\* C29: the tracks are processed once each in input order, a track whose
\* extraction returned None is followed by the next track, and on return
\* successful + failed is the number of input tracks and the file holds
\* the rows of the successful tracks and no other row.
C29_EveryTrackProcessedOnce ==
    /\ pt_pc # "raised"
    /\ \A n \in 1..Len(pt_log) : pt_log[n].index = n
    /\ Len(pt_log) <= Len(pt_tracks)
    /\ pt_pc = "returned" =>
          /\ Len(pt_log) = Len(pt_tracks)
          /\ pt_successful + pt_failed = Len(pt_tracks)
          /\ pt_successful = Cardinality({n \in 1..Len(pt_log) : pt_log[n].data.kind = "rows"})
          /\ pt_file.header
          /\ pt_file.rows = LoggedRows(Len(pt_log))

\* Three tracks: the first succeeds, the second is exhausted, the third
\* succeeds and its rows follow those of the first in the file.
C29_Witness ==
    /\ pt_pc = "returned"
    /\ Len(pt_tracks) = 3
    /\ pt_retry_count >= 2
    /\ pt_log[1].data.kind = "rows"
    /\ pt_log[2].data.kind = "None"
    /\ pt_log[3].data.kind = "rows"
    /\ pt_successful = 2 /\ pt_failed = 1
    /\ pt_file.rows # <<>>
    /\ pt_file.rows[Len(pt_file.rows)].track_id = pt_tracks[3].track_id

----------------------------------------------------------------------------
(* Specification SpecCli: run_cli with both dates given: the call of       *)
(* scrape_date_range as in SpecRange, with output_dir set, and then the    *)
(* clean, deduplicate and export steps in one step.                        *)

\* The parameters AIHelper.__init__ has besides self, and the methods the
\* class defines.
AIHelperParameters == {"api_key"}

AIHelperMethods == {"__init__", "analyze_track_data", "clean_and_format_data"}

\* AIHelper(...) called with the keyword arguments given
AIHelperInit(given) == IF AIHelperParameters \subseteq given THEN "ok" ELSE "TypeError"

\* DataCleaner(): "self.ai_helper = AIHelper()"
DataCleanerInit == AIHelperInit({})

\* The columns clean_data reads from its input before it selects
\* column_order.
CleanDataColumns ==
    {TxtChartDate,
     <<"s", "o", "n", "g", "_", "t", "i", "t", "l", "e">>,
     <<"a", "r", "t", "i", "s", "t">>,
     <<"s", "t", "r", "e", "a", "m", "s">>,
     <<"a", "r", "t", "i", "s", "t", "_", "u", "r", "l">>,
     <<"a", "r", "t", "i", "s", "t", "_", "i", "d">>,
     <<"r", "a", "n", "k">>}

\* The methods of self.ai_helper that clean_data calls.
CleanDataCalls == {"clean_and_format_data", "analyze_chart_data", "suggest_visualizations"}

\* clean_data(df): every exception of its body becomes DataCleaningError.
CleanData(df) ==
    IF ~(CleanDataColumns \subseteq df.cols) THEN "DataCleaningError"
    ELSE IF ~(CleanDataCalls \subseteq AIHelperMethods) THEN "DataCleaningError"
    ELSE "ok"

\* The try block of run_cli from the result of scrape_date_range on, and
\* its "except Exception: ... sys.exit(1)".
CliAfterScrape(result) ==
    IF result.kind # "table" THEN [pc |-> "exited", step |-> "scrape_date_range", status |-> 1]
    ELSE IF DataCleanerInit # "ok" THEN [pc |-> "exited", step |-> "DataCleaner", status |-> 1]
    ELSE IF CleanData(result.df) # "ok" THEN [pc |-> "exited", step |-> "clean_data", status |-> 1]
    ELSE [pc |-> "returned", step |-> "none", status |-> 0]

CliInit ==
    /\ rg_pc = "start"
    /\ rg_start \in RgStarts
    /\ rg_end \in RgEnds
    /\ rg_output_dir = TRUE
    /\ rg_subdirs \in BOOLEAN
    /\ rg_available = <<>>
    /\ rg_dates = <<>>
    /\ rg_i = 0
    /\ rg_all_data = <<>>
    /\ rg_files = {}
    /\ rg_log = <<>>
    /\ rg_result = NoOutcome
    /\ rg_index = {}
    /\ cli_pc = "scrape"
    /\ cli_step = "none"
    /\ cli_status = 0
    /\ PnIdle /\ RsIdle /\ KsIdle /\ ThIdle /\ SsIdle /\ UiIdle /\ DdIdle /\ ExIdle /\ CkIdle /\ PtIdle

\* scrape_date_range has ended: the rest of the try block and the handler
CliPipeline ==
    /\ cli_pc = "scrape"
    /\ rg_pc = "done"
    /\ cli_pc' = CliAfterScrape(rg_result).pc
    /\ cli_step' = CliAfterScrape(rg_result).step
    /\ cli_status' = CliAfterScrape(rg_result).status
    /\ UNCHANGED <<pnVars, rsVars, ksVars, rgVars, thVars, ssVars, uiVars, ddVars, exVars, ckVars, ptVars>>

CliNext == RgNext \/ CliPipeline

SpecCli == CliInit /\ [][CliNext]_vars

\* C30: when scrape_date_range returned a table, the table has every
\* column clean_data and deduplicate read, and run_cli ends without the
\* error exit.
C30_ScrapedTableIsCleaned ==
    (cli_pc \in {"exited", "returned"} /\ rg_result.kind = "table") =>
        /\ CleanDataColumns \subseteq rg_result.df.cols
        /\ cli_pc = "returned"
        /\ cli_status = 0

====
